---- MODULE Spec2Model ----
(***************************************************************************)
(* Availability reconciliation engine of the Sogod Waterworks appointment  *)
(* script (src/googleactionscriptcodeworking.gs).                          *)
(*                                                                         *)
(* Dates are day numbers; day 0 is a Monday.  The numeric constants of the *)
(* script (SLOT_CAP = 20, FUTURE_DAYS = 60, the calendar quotas 20 and     *)
(* 2000) are scaled down to the values below so that the state space is    *)
(* finite and small; the registry keeps its first two entries.             *)
(***************************************************************************)
EXTENDS Integers, Sequences, FiniteSets, TLC

VARIABLES
    ledger,             \* availability sheets: category -> day -> row
    responses,          \* response sheets: category -> sequence of rows
    cal,                \* default calendar: day -> events in listing order
    choices,            \* date choice list of every category's form
    holidayCache,       \* script cache entry HOLIDAY_CACHE_KEY
    calendarAvailable,  \* whether the remote holiday calendar answers
    callsToday,         \* persisted daily calendar call counter
    callsThisRun,       \* calendarCallsThisRun when the last execution ended
    lockHolder,         \* execution holding the script lock
    pc,                 \* position of every execution that runs step by step
    succeeded,          \* successful all-category decrements per date
    hist                \* observation of the last operation

vars == <<ledger, responses, cal, choices, holidayCache, calendarAvailable,
          callsToday, callsThisRun, lockHolder, pc, succeeded, hist>>

----------------------------------------------------------------------------
(* Bounds and scaled program constants *)

SLOT_CAP == 2
FUTURE_DAYS == 4
RESPONSE_RETENTION_DAYS == 1
CALENDAR_API_CALL_LIMIT_PER_RUN == 2
CALENDAR_API_CALL_LIMIT_PER_DAY == 5
MaxPast == 1
MaxBeyond == 1
MaxResp == 3

Today == MaxPast
MaxDay == MaxPast + FUTURE_DAYS + MaxBeyond
Days == 0..MaxDay

FORM_REGISTRY == <<"Form Responses 1", "ForConnection">>
Cats == 1..Len(FORM_REGISTRY)

Max(a, b) == IF a >= b THEN a ELSE b
Min(a, b) == IF a <= b THEN a ELSE b

----------------------------------------------------------------------------
(* Date utilities *)

getDay(d) == (d + 1) % 7

isWeekend(d) == getDay(d) \in {0, 6}

isBeforeToday(d) == d < Today

isBeyondFutureWindow(d) == d > Today + FUTURE_DAYS

----------------------------------------------------------------------------
(* Holiday service *)

NoCache == {-1}
RemoteHolidays == {Today + 2}
ManualHolidays == {Today + 1}

isHoliday(d) ==
    IF holidayCache # NoCache /\ d \in holidayCache THEN TRUE
    ELSE IF calendarAvailable THEN d \in RemoteHolidays
    ELSE d \in ManualHolidays

\* HolidayService.fetchRange(start, end): the cached dates of the range when
\* there is a cache entry; otherwise the remote events of the range, when the
\* remote calendar answers, joined with the fallback table, which is then put
\* in the cache.
fetchRange(cache, available, s, e) ==
    IF cache # NoCache
    THEN [dates |-> {d \in s..e : d \in cache}, cache |-> cache]
    ELSE LET holidayDates == (IF available THEN {d \in s..e : d \in RemoteHolidays} ELSE {})
                             \cup {d \in s..e : d \in ManualHolidays}
         IN  [dates |-> holidayDates, cache |-> holidayDates]

isValidBusinessDate(d) ==
    /\ ~isBeforeToday(d)
    /\ ~isWeekend(d)
    /\ ~isBeyondFutureWindow(d)
    /\ ~isHoliday(d)

----------------------------------------------------------------------------
(* Availability ledger *)

NoRow == [present |-> FALSE, booked |-> 0, left |-> 0]
Row(b, l) == [present |-> TRUE, booked |-> b, left |-> l]
FreshRow == Row(0, SLOT_CAP)

EmptySheet == [d \in Days |-> NoRow]

\* Phase 1 of decrementSlotAllCategories: locate the row of the date in every
\* sheet, appending [date, 0, SLOT_CAP] where it is missing.
DecrementReadPhase(L, d) ==
    [c \in Cats |-> [L[c] EXCEPT ![d] = IF @.present THEN @ ELSE FreshRow]]

\* Faulty variant: the guard trips only below zero.
hasOverbookingBelowZero(L, d) == \E c \in Cats : L[c][d].left < 0

hasOverbooking(L, d) == \E c \in Cats : L[c][d].left <= 0

\* Phase 2: booked + 1, left - 1 floored at 0, in every sheet.
DecrementWritePhase(L, d) ==
    [c \in Cats |-> [L[c] EXCEPT ![d] =
        Row(@.booked + 1, Max(0, @.left - 1))]]

\* Faulty variant: the rows outside the range are kept.
SeedSheetKeepStale(S) ==
    [d \in Days |->
        IF S[d].present THEN S[d]
        ELSE IF d < Today \/ d > Today + FUTURE_DAYS THEN NoRow
        ELSE IF ~isWeekend(d) /\ ~isHoliday(d) THEN FreshRow
        ELSE NoRow]

\* Faulty variant: only the first missing date of the range is appended.
SeedSheetOneRow(S) ==
    LET missing == {d \in Days : /\ d >= Today /\ d <= Today + FUTURE_DAYS
                                 /\ ~S[d].present
                                 /\ ~isWeekend(d) /\ ~isHoliday(d)}
    IN  [d \in Days |->
            IF d < Today \/ d > Today + FUTURE_DAYS THEN NoRow
            ELSE IF S[d].present THEN S[d]
            ELSE IF d \in missing /\ \A x \in missing : d <= x THEN FreshRow
            ELSE NoRow]

\* seedAvailabilityWindow on one sheet: rows outside [start, start+days] are
\* deleted, then a fresh row is appended for every missing non-weekend,
\* non-holiday date of the range.
SeedSheet(S) ==
    [d \in Days |->
        IF d < Today \/ d > Today + FUTURE_DAYS THEN NoRow
        ELSE IF S[d].present THEN S[d]
        ELSE IF ~isWeekend(d) /\ ~isHoliday(d) THEN FreshRow
        ELSE NoRow]

\* revertAvailabilityForDate_ on one sheet.
RevertRow(r) == Row(Max(0, r.booked - 1), Min(SLOT_CAP, r.left + 1))

RevertSheet(S, d) == IF S[d].present THEN [S EXCEPT ![d] = RevertRow(@)] ELSE S

----------------------------------------------------------------------------
(* Response sheets *)

\* A response row: requester identity, the day named by the chosen label, the
\* submission timestamp, and whether the "Date of Appointment" cell is the full
\* choice label ("yyyy-MM-dd EEE (n slots left)") or the bare date string.
Idents == {"a", "b"}

RespRow(i, d, t, lab) == [ident |-> i, day |-> d, ts |-> t, label |-> lab]

RECURSIVE SumLen(_, _)
SumLen(R, c) == IF c = 0 THEN 0 ELSE Len(R[c]) + SumLen(R, c - 1)

NumResponses == SumLen(responses, Len(FORM_REGISTRY))

\* getResponseDates: the dates parsed out of column RESP_DATE_COL, kept when
\* not older than the retention cutoff.
cutoffDay == Today - RESPONSE_RETENTION_DAYS

getResponseDates(c) ==
    SelectSeq([k \in 1..Len(responses[c]) |-> responses[c][k].day],
              LAMBDA d : d >= cutoffDay)

\* tallyByDate
CountOf(seq, d) == Cardinality({k \in 1..Len(seq) : seq[k] = d})

tallyByDate(dates) ==
    [d \in {dates[k] : k \in 1..Len(dates)} |-> CountOf(dates, d)]

\* The sheet rebuildSlotCounters and rebuildAllAvailabilityAndCalendar write:
\* contents cleared, then one row [date, booked, SLOT_CAP - booked] per tallied
\* date.
RebuiltLeft(booked) == SLOT_CAP - booked

RebuiltSheet(counts) ==
    [d \in Days |->
        IF d \in DOMAIN counts THEN Row(counts[d], RebuiltLeft(counts[d]))
        ELSE NoRow]

----------------------------------------------------------------------------
(* Calendar abstraction *)

\* Event titles.  A summary title is "<n> slots left [DAILY_SUMMARY]" as
\* syncSummaryEvents writes it, or "<n> slots left (<SLOT_CAP> total)
\* [DAILY_SUMMARY]" as upsertDailySummaryEvent writes it; an appointment title is
\* "<sheetName>:<identity> [APPOINTMENT]".
Title(k, n, f, c, i) == [kind |-> k, left |-> n, fmt |-> f, cat |-> c, ident |-> i]

SyncSummaryTitle(n) == Title("summary", n, "sync", 0, "")
UpsertSummaryTitle(n) == Title("summary", n, "upsert", 0, "")
AppointmentTitle(c, i) == Title("appt", 0, "", c, i)

\* Descriptions: none, the summary tag, or (by the sheet name) a description
\* carrying "[form=<sheetName>]".
NoDescription == ""
SummaryDescription == "[DAILY_SUMMARY]"

Event(t, desc) == [title |-> t, desc |-> desc]

\* A deleted event keeps its place in the listing an execution already holds.
Deleted == Event(Title("deleted", 0, "", 0, ""), "")
Live(e) == e.title.kind # "deleted"

hasSummaryTag(e) == e.title.kind = "summary"
hasAppointmentTag(e) == e.title.kind = "appt"

EmptyCalendar == [d \in Days |-> <<>>]

Ref(d, i) == [day |-> d, idx |-> i]
EventAt(C, r) == C[r.day][r.idx]

RefsOnDay(C, d) == [i \in 1..Len(C[d]) |-> Ref(d, i)]

RECURSIVE RefsFrom(_, _, _)
RefsFrom(C, lo, hi) ==
    IF lo > hi THEN <<>> ELSE RefsOnDay(C, lo) \o RefsFrom(C, lo + 1, hi)

\* Instants are half days: day d runs over [2d, 2d + 2) and an execution's
\* "now" is 2 * Today + 1.  CAL.getEvents(start, end) lists, by start time, the
\* events that overlap [start, end).
startOfDay(d) == 2 * d
Now == 2 * Today + 1

getEvents(C, s, e) ==
    SelectSeq(RefsFrom(C, 0, MaxDay),
              LAMBDA r : /\ Live(EventAt(C, r))
                         /\ startOfDay(r.day) < e
                         /\ startOfDay(r.day) + 2 > s)

getEventsForDay(C, d) == getEvents(C, startOfDay(d), startOfDay(d) + 2)

Compact(C) == [d \in Days |-> SelectSeq(C[d], Live)]

----------------------------------------------------------------------------
(* Quota manager *)

\* The calendar and the counters as one execution sees them: run is
\* calendarCallsThisRun, day is calendarCallsToday; muts counts the calendar
\* mutations (create, delete, title update) the execution has made, ungated
\* those made without canCall/recordCall, late those made after a counter had
\* reached its ceiling; refused records that canCall answered false.
Exec(C, day) ==
    [cal |-> C, run |-> 0, day |-> day, muts |-> 0, ungated |-> 0,
     late |-> 0, reached |-> FALSE, refused |-> FALSE]

initRun(K) == [K EXCEPT !.run = 0]

canCall(K) ==
    /\ K.run + 1 <= CALENDAR_API_CALL_LIMIT_PER_RUN
    /\ K.day + 1 <= CALENDAR_API_CALL_LIMIT_PER_DAY

AtCeiling(K) ==
    \/ K.run >= CALENDAR_API_CALL_LIMIT_PER_RUN
    \/ K.day >= CALENDAR_API_CALL_LIMIT_PER_DAY

recordCall(K) ==
    LET K1 == [K EXCEPT !.run = @ + 1, !.day = @ + 1]
    IN  [K1 EXCEPT !.reached = @ \/ AtCeiling(K1)]

Mutated(K, C) ==
    [K EXCEPT !.cal = C, !.muts = @ + 1,
              !.late = IF K.reached \/ AtCeiling(K) THEN @ + 1 ELSE @]

createAllDayEvent(K, d, e) == Mutated(K, [K.cal EXCEPT ![d] = Append(@, e)])
deleteEvent(K, r) == Mutated(K, [K.cal EXCEPT ![r.day][r.idx] = Deleted])
setTitle(K, r, t) == Mutated(K, [K.cal EXCEPT ![r.day][r.idx].title = t])

Ungated(K) == [K EXCEPT !.ungated = @ + 1]

Refused(K) == [K EXCEPT !.refused = TRUE]

safeCreateEvent(K, d, e) ==
    IF canCall(K) THEN recordCall(createAllDayEvent(K, d, e)) ELSE Refused(K)

safeDeleteEvent(K, r) ==
    IF canCall(K) THEN recordCall(deleteEvent(K, r)) ELSE Refused(K)

safeUpdateTitle(K, r, t) ==
    IF canCall(K) THEN recordCall(setTitle(K, r, t)) ELSE Refused(K)

\* chunk.forEach(ev => safeDeleteEvent(ev)) over a listing
RECURSIVE SafeDeleteEach(_, _)
SafeDeleteEach(K, refs) ==
    IF refs = <<>> THEN K
    ELSE SafeDeleteEach(safeDeleteEvent(K, Head(refs)), Tail(refs))

----------------------------------------------------------------------------
(* Purges of the nightly run *)

isTagged(C, r) == hasSummaryTag(EventAt(C, r)) \/ hasAppointmentTag(EventAt(C, r))
isSummary(C, r) == hasSummaryTag(EventAt(C, r))
isAppointment(C, r) == hasAppointmentTag(EventAt(C, r))

endOfDay(d) == startOfDay(d) + 2
FarFuture == endOfDay(MaxDay)

\* Faulty variant: every past event goes, whatever its title.
purgePastCalendarEventsAnyTitle(K) ==
    SafeDeleteEach(K, getEvents(K.cal, 0, startOfDay(Today)))

purgePastCalendarEvents(K) ==
    SafeDeleteEach(K, SelectSeq(getEvents(K.cal, 0, startOfDay(Today)),
                                LAMBDA r : isTagged(K.cal, r)))

purgeFutureSummaryEvents(K) ==
    SafeDeleteEach(K, SelectSeq(getEvents(K.cal, endOfDay(Today + FUTURE_DAYS), FarFuture),
                                LAMBDA r : isSummary(K.cal, r)))

\* The thirty days of look-back cover every past day of the model.
purgeWeekendSummaryEvents(K) ==
    SafeDeleteEach(K, SelectSeq(getEvents(K.cal, startOfDay(Today - MaxPast),
                                          endOfDay(Today + FUTURE_DAYS)),
                                LAMBDA r : /\ isSummary(K.cal, r)
                                           /\ ~isValidBusinessDate(r.day)))

----------------------------------------------------------------------------
(* Calendar sync service *)

\* row[AVAIL_LEFT_COL - 1] || SLOT_CAP
LeftOrCap(l) == IF l = 0 THEN SLOT_CAP ELSE l

getAvailabilityForDate(L, d) ==
    LET lefts == {LeftOrCap(L[c][d].left) : c \in {x \in Cats : L[x][d].present}}
                 \cup {SLOT_CAP}
    IN  CHOOSE m \in lefts : \A x \in lefts : m <= x

RemoveAt(seq, i) == SubSeq(seq, 1, i - 1) \o SubSeq(seq, i + 1, Len(seq))

RECURSIVE SortByTimestampDesc(_)
SortByTimestampDesc(rows) ==
    IF rows = <<>> THEN <<>>
    ELSE LET i == CHOOSE i \in 1..Len(rows) : \A j \in 1..Len(rows) :
                      \/ rows[j].ts < rows[i].ts
                      \/ rows[j].ts = rows[i].ts /\ j >= i
         IN  <<rows[i]>> \o SortByTimestampDesc(RemoveAt(rows, i))

\* row[dateCol] === dateStr: only a cell that is exactly the date matches.
CellIsDate(row, d) == row.label = "bare" /\ row.day = d

RECURSIVE DedupRows(_, _, _)
DedupRows(c, rows, acc) ==
    IF rows = <<>> THEN acc
    ELSE LET row == Head(rows) IN
         IF row.ident \in acc.seen THEN DedupRows(c, Tail(rows), acc)
         ELSE DedupRows(c, Tail(rows),
                        [seen |-> acc.seen \cup {row.ident},
                         titles |-> Append(acc.titles, AppointmentTitle(c, row.ident))])

RECURSIVE ExpectedOver(_, _, _, _)
ExpectedOver(R, d, c, acc) ==
    IF c > Len(FORM_REGISTRY) THEN acc
    ELSE ExpectedOver(R, d, c + 1,
             DedupRows(c, SortByTimestampDesc(
                              SelectSeq(R[c], LAMBDA row : CellIsDate(row, d))), acc))

getExpectedAppointmentsForDate(R, d) ==
    ExpectedOver(R, d, 1, [seen |-> {}, titles |-> <<>>]).titles

Range(seq) == {seq[k] : k \in 1..Len(seq)}

\* if (canCall(1)) { event.deleteEvent(); recordCall(1); } for every event
RECURSIVE GatedDeleteEach(_, _)
GatedDeleteEach(K, refs) ==
    IF refs = <<>> THEN K
    ELSE GatedDeleteEach(safeDeleteEvent(K, Head(refs)), Tail(refs))

\* CAL.getEvents(dateObj, dateObj, {search: title})
searchAt(C, d, t) ==
    SelectSeq(getEvents(C, startOfDay(d), startOfDay(d)),
              LAMBDA r : EventAt(C, r).title = t)

\* Faulty variant: duplicate summaries are left alone.
syncSummaryEventsNoCleanup(K, L, d, existingEvents) ==
    IF ~isValidBusinessDate(d) THEN K
    ELSE LET expectedTitle == SyncSummaryTitle(getAvailabilityForDate(L, d))
         IN  IF Len(existingEvents) = 0
             THEN safeCreateEvent(K, d, Event(expectedTitle, NoDescription))
             ELSE IF EventAt(K.cal, existingEvents[1]).title # expectedTitle
             THEN safeUpdateTitle(K, existingEvents[1], expectedTitle)
             ELSE K

\* Faulty variant: the duplicates go, the survivor keeps the title it had.
syncSummaryEventsStaleKeeper(K, L, d, existingEvents) ==
    IF ~isValidBusinessDate(d) THEN K
    ELSE LET expectedTitle == SyncSummaryTitle(getAvailabilityForDate(L, d))
         IN  IF Len(existingEvents) = 0
             THEN safeCreateEvent(K, d, Event(expectedTitle, NoDescription))
             ELSE GatedDeleteEach(K, Tail(existingEvents))

syncSummaryEvents(K, L, d, existingEvents) ==
    IF ~isValidBusinessDate(d) THEN K
    ELSE LET expectedTitle == SyncSummaryTitle(getAvailabilityForDate(L, d))
             existingWithTitle == searchAt(K.cal, d, expectedTitle)
             hasExactMatch == Len(existingWithTitle) > 0
         IN  IF Len(existingEvents) = 0 /\ ~hasExactMatch
             THEN safeCreateEvent(K, d, Event(expectedTitle, NoDescription))
             ELSE IF Len(existingEvents) = 1 /\ ~hasExactMatch
             THEN IF EventAt(K.cal, existingEvents[1]).title # expectedTitle
                  THEN safeUpdateTitle(K, existingEvents[1], expectedTitle)
                  ELSE K
             ELSE LET eventsToKeep == IF hasExactMatch THEN existingWithTitle
                                      ELSE <<existingEvents[1]>>
                      \* the events of another listing are other objects
                      eventsToDelete == IF hasExactMatch THEN existingEvents
                                        ELSE Tail(existingEvents)
                      K1 == GatedDeleteEach(K, eventsToDelete)
                      keeper == eventsToKeep[1]
                  IN  IF EventAt(K.cal, keeper).title # expectedTitle
                      THEN safeUpdateTitle(K1, keeper, expectedTitle)
                      ELSE K1

RECURSIVE CreateMissing(_, _, _)
CreateMissing(K, d, missing) ==
    IF missing = <<>> THEN K
    ELSE LET title == Head(missing)
             K1 == IF Len(searchAt(K.cal, d, title)) = 0
                   THEN safeCreateEvent(K, d, Event(title, NoDescription))
                   ELSE K
         IN  CreateMissing(K1, d, Tail(missing))

RECURSIVE DeleteExtra(_, _, _)
DeleteExtra(K, existingEvents, extra) ==
    IF extra = <<>> THEN K
    ELSE DeleteExtra(
             GatedDeleteEach(K, SelectSeq(existingEvents,
                 LAMBDA r : EventAt(K.cal, r).title = Head(extra))),
             existingEvents, Tail(extra))

RECURSIVE Distinct(_)
Distinct(seq) ==
    IF seq = <<>> THEN <<>>
    ELSE <<Head(seq)>> \o Distinct(SelectSeq(Tail(seq), LAMBDA x : x # Head(seq)))

\* Faulty variant: the appointment events of the date are deleted and created
\* anew on every run.
syncAppointmentEventsRecreate(K, R, d, existingEvents) ==
    CreateMissing(GatedDeleteEach(K, existingEvents), d,
                  getExpectedAppointmentsForDate(R, d))

syncAppointmentEvents(K, R, d, existingEvents) ==
    LET expectedAppointments == getExpectedAppointmentsForDate(R, d)
        existingTitles ==
            Distinct([k \in 1..Len(existingEvents) |->
                         EventAt(K.cal, existingEvents[k]).title])
        missing == SelectSeq(expectedAppointments,
                             LAMBDA x : x \notin Range(existingTitles))
        extra == SelectSeq(existingTitles,
                           LAMBDA x : x \notin Range(expectedAppointments))
    IN  DeleteExtra(CreateMissing(K, d, missing), existingEvents, extra)

RECURSIVE SyncDates(_, _, _, _, _)
SyncDates(K, L, R, allEvents, d) ==
    IF d > Today + FUTURE_DAYS THEN K
    ELSE IF isBeforeToday(d) \/ isWeekend(d) \/ isBeyondFutureWindow(d) \/ isHoliday(d)
    THEN SyncDates(K, L, R, allEvents, d + 1)
    ELSE LET summary == SelectSeq(allEvents,
                 LAMBDA r : r.day = d /\ isSummary(K.cal, r))
             appointments == SelectSeq(allEvents,
                 LAMBDA r : r.day = d /\ ~isSummary(K.cal, r) /\ isAppointment(K.cal, r))
             K1 == syncSummaryEvents(K, L, d, summary)
         IN  SyncDates(syncAppointmentEvents(K1, R, d, appointments),
                       L, R, allEvents, d + 1)

syncDateRange(K, L, R) ==
    LET K0 == initRun(K)
        allEvents == SelectSeq(getEvents(K0.cal, Now, Now + 2 * FUTURE_DAYS),
                               LAMBDA r : isTagged(K0.cal, r))
    IN  SyncDates(K0, L, R, allEvents, Today)

\* The loop of syncDateRange with errors: on a date of fails the body of the
\* try throws before it has changed anything; the catch counts the error and
\* the loop goes on with the next date.  S holds the execution, the dates
\* visited and the errors counted.
\* Faulty variant: the first error ends the loop.
RECURSIVE SyncDatesStopAtError(_, _, _, _, _, _)
SyncDatesStopAtError(S, L, R, allEvents, d, fails) ==
    IF d > Today + FUTURE_DAYS THEN S
    ELSE LET V == [S EXCEPT !.visited = Append(@, d)] IN
         IF d \in fails THEN [V EXCEPT !.errors = @ + 1]
         ELSE IF isBeforeToday(d) \/ isWeekend(d) \/ isBeyondFutureWindow(d) \/ isHoliday(d)
         THEN SyncDatesStopAtError(V, L, R, allEvents, d + 1, fails)
         ELSE LET summary == SelectSeq(allEvents,
                      LAMBDA r : r.day = d /\ isSummary(S.K.cal, r))
                  appointments == SelectSeq(allEvents,
                      LAMBDA r : r.day = d /\ ~isSummary(S.K.cal, r)
                                           /\ isAppointment(S.K.cal, r))
                  K1 == syncSummaryEvents(S.K, L, d, summary)
              IN  SyncDatesStopAtError(
                      [V EXCEPT !.K = syncAppointmentEvents(K1, R, d, appointments)],
                      L, R, allEvents, d + 1, fails)

RECURSIVE SyncDatesWithErrors(_, _, _, _, _, _)
SyncDatesWithErrors(S, L, R, allEvents, d, fails) ==
    IF d > Today + FUTURE_DAYS THEN S
    ELSE LET V == [S EXCEPT !.visited = Append(@, d)] IN
         IF d \in fails
         THEN SyncDatesWithErrors([V EXCEPT !.errors = @ + 1], L, R, allEvents, d + 1, fails)
         ELSE IF isBeforeToday(d) \/ isWeekend(d) \/ isBeyondFutureWindow(d) \/ isHoliday(d)
         THEN SyncDatesWithErrors(V, L, R, allEvents, d + 1, fails)
         ELSE LET summary == SelectSeq(allEvents,
                      LAMBDA r : r.day = d /\ isSummary(S.K.cal, r))
                  appointments == SelectSeq(allEvents,
                      LAMBDA r : r.day = d /\ ~isSummary(S.K.cal, r)
                                           /\ isAppointment(S.K.cal, r))
                  K1 == syncSummaryEvents(S.K, L, d, summary)
              IN  SyncDatesWithErrors(
                      [V EXCEPT !.K = syncAppointmentEvents(K1, R, d, appointments)],
                      L, R, allEvents, d + 1, fails)

syncDateRangeWithErrors(K, L, R, fails) ==
    LET K0 == initRun(K)
        allEvents == SelectSeq(getEvents(K0.cal, Now, Now + 2 * FUTURE_DAYS),
                               LAMBDA r : isTagged(K0.cal, r))
    IN  SyncDatesWithErrors([K |-> K0, visited |-> <<>>, errors |-> 0],
                            L, R, allEvents, Today, fails)

----------------------------------------------------------------------------
(* Summary upsert and the legacy helpers around it *)

\* Faulty variant: the business-date guard is missing.
upsertDailySummaryEventUnguarded(K, d, leftCount) ==
    LET events == SelectSeq(getEventsForDay(K.cal, d), LAMBDA r : isSummary(K.cal, r))
        title == UpsertSummaryTitle(leftCount)
    IN  IF Len(events) >= 1 THEN K
        ELSE safeCreateEvent(K, d, Event(title, SummaryDescription))

\* cal.getEventsForDay(appointmentDate, {search: FULL_SUMMARY_TAG})
upsertDailySummaryEvent(K, d, leftCount) ==
    IF ~isValidBusinessDate(d) THEN K
    ELSE LET events == SelectSeq(getEventsForDay(K.cal, d),
                                 LAMBDA r : isSummary(K.cal, r))
             K1 == IF Len(events) > 1 THEN SafeDeleteEach(K, Tail(events)) ELSE K
             title == UpsertSummaryTitle(leftCount)
         IN  IF Len(events) >= 1
             THEN IF EventAt(K.cal, events[1]).title = title THEN K1
                  ELSE safeUpdateTitle(K1, events[1], title)
             ELSE safeCreateEvent(K1, d, Event(title, SummaryDescription))

getLeftFromSheet(L, c, d) == IF L[c][d].present THEN L[c][d].left ELSE 0

hasFormTag(e, c) == e.desc = FORM_REGISTRY[c]

\* chunk.forEach(ev => ev.deleteEvent())
RECURSIVE DeleteEach(_, _)
DeleteEach(K, refs) ==
    IF refs = <<>> THEN K
    ELSE DeleteEach(Ungated(deleteEvent(K, Head(refs))), Tail(refs))

\* The window of one year either side covers every day of the model.
purgeCalendarEventsForForm(K, c) ==
    DeleteEach(K, SelectSeq(getEvents(K.cal, 0, FarFuture),
                            LAMBDA r : /\ isSummary(K.cal, r)
                                       /\ hasFormTag(EventAt(K.cal, r), c)))

\* Object.keys(counts): the tallied dates in the order of their first response
TalliedDates(c) == Distinct(getResponseDates(c))

RECURSIVE UpsertTallied(_, _, _, _)
UpsertTallied(K, L, c, dates) ==
    IF dates = <<>> THEN K
    ELSE UpsertTallied(
             upsertDailySummaryEvent(K, Head(dates), getLeftFromSheet(L, c, Head(dates))),
             L, c, Tail(dates))

\* One registry entry of rebuildAllAvailabilityAndCalendar: the sheet is
\* rewritten from the tally, the form's events purged, the summaries upserted.
RECURSIVE RebuildEntries(_, _)
RebuildEntries(S, c) ==
    IF c > Len(FORM_REGISTRY) THEN S
    ELSE LET L1 == [S.ledger EXCEPT ![c] = RebuiltSheet(tallyByDate(getResponseDates(c)))]
             K1 == purgeCalendarEventsForForm(S.K, c)
         IN  RebuildEntries([ledger |-> L1,
                             K |-> UpsertTallied(K1, L1, c, TalliedDates(c))], c + 1)

----------------------------------------------------------------------------
(* Date windows and choice lists *)

BUSINESS_DAYS_WINDOW == FUTURE_DAYS

Counted(counts, d) == IF d \in DOMAIN counts THEN counts[d] ELSE 0

Choice(d, l) == [day |-> d, left |-> l]

\* buildBusinessDays: the first BUSINESS_DAYS_WINDOW business days from today
\* (the walk stops at the last day of the model), those with slots left.
RECURSIVE BusinessDaysFrom(_, _, _)
BusinessDaysFrom(counts, d, found) ==
    IF found >= BUSINESS_DAYS_WINDOW \/ d > MaxDay THEN <<>>
    ELSE IF isWeekend(d) \/ isHoliday(d) THEN BusinessDaysFrom(counts, d + 1, found)
    ELSE LET left == SLOT_CAP - Counted(counts, d)
         IN  (IF left > 0 THEN <<Choice(d, left)>> ELSE <<>>)
             \o BusinessDaysFrom(counts, d + 1, found + 1)

buildBusinessDays(counts) == BusinessDaysFrom(counts, Today, 0)

\* buildDateWindow(today, FUTURE_DAYS)
buildDateWindow ==
    SelectSeq([k \in 1..(FUTURE_DAYS + 1) |-> Today + k - 1],
              LAMBDA d : ~isWeekend(d) /\ ~isHoliday(d))

\* The labels updateAvailability_everywhere gives every form.
NightlyLabels(L) ==
    LET all == [k \in 1..Len(buildDateWindow) |->
                   Choice(buildDateWindow[k], getAvailabilityForDate(L, buildDateWindow[k]))]
    IN  SelectSeq(all, LAMBDA ch : ch.left > 0)

\* batchSyncCalendarSummaries: one upsert per available date, with the left
\* count of the first registry entry's sheet.
RECURSIVE UpsertAvailable(_, _, _)
UpsertAvailable(K, L, items) ==
    IF items = <<>> THEN K
    ELSE UpsertAvailable(
             upsertDailySummaryEvent(K, Head(items).day,
                                     getLeftFromSheet(L, 1, Head(items).day)),
             L, Tail(items))

\* batchWriteAvailabilitySheet
WrittenSheet(items) ==
    [d \in Days |->
        IF \E k \in 1..Len(items) : items[k].day = d
        THEN LET k == CHOOSE k \in 1..Len(items) : items[k].day = d
             IN  Row(SLOT_CAP - items[k].left, items[k].left)
        ELSE NoRow]

----------------------------------------------------------------------------
(* Observation of the last operation *)

EmptyLedger == [c \in Cats |-> EmptySheet]

NoObs ==
    [op |-> "none", day |-> 0, cat |-> 0, result |-> "none", pre |-> EmptyLedger,
     n |-> 0, late |-> 0, ungated |-> 0, refused |-> FALSE,
     prevOp |-> "none", prevRefused |-> FALSE, prevN |-> 0, titles |-> <<>>,
     from |-> 0, ident |-> "", done |-> <<>>, allowed |-> 0, set |-> {}]

LedgerObs(op, d, c, res, pre) ==
    [NoObs EXCEPT !.op = op, !.day = d, !.cat = c, !.result = res, !.pre = pre]

CalendarObs(op, K) ==
    [NoObs EXCEPT !.op = op, !.n = K.muts, !.late = K.late, !.ungated = K.ungated,
                  !.refused = K.refused]

----------------------------------------------------------------------------
(* Faulty variants, against which the properties below are tried *)

\* The overbooking guard aborts, but after the categories that still had slots
\* were decremented.
DecrementOutcomePartial(L, d) ==
    IF isHoliday(d) THEN [ledger |-> L, result |-> "holiday"]
    ELSE LET L1 == DecrementReadPhase(L, d) IN
         IF hasOverbooking(L1, d)
         THEN [ledger |-> [c \in Cats |-> [L1[c] EXCEPT ![d] =
                              IF @.left > 0 THEN Row(@.booked + 1, @.left - 1) ELSE @]],
               result |-> "noslots"]
         ELSE [ledger |-> DecrementWritePhase(L1, d), result |-> "ok"]

\* The holiday guard placed after the read phase.
DecrementOutcomeLateGuard(L, d) ==
    LET L1 == DecrementReadPhase(L, d) IN
    IF isHoliday(d) THEN [ledger |-> L1, result |-> "holiday"]
    ELSE IF hasOverbooking(L1, d)
         THEN [ledger |-> L1, result |-> "noslots"]
         ELSE [ledger |-> DecrementWritePhase(L1, d), result |-> "ok"]

----------------------------------------------------------------------------
(* Handlers, each run by one execution that finds the script lock free *)

NoOne == "none"
Execs == {"e1", "e2"}
Idle ==
    [at |-> "idle", entry |-> 0, day |-> 0, read |-> <<>>, run |-> 0,
     done |-> <<>>, threw |-> FALSE, ident |-> ""]

\* What an execution leaves behind: the calendar and the persisted counter.
Finish(K) ==
    /\ cal' = Compact(K.cal)
    /\ callsToday' = K.day
    /\ callsThisRun' = K.run

SubmitResponse(c, i, d, lab) ==
    /\ NumResponses < MaxResp
    /\ responses' = [responses EXCEPT
           ![c] = Append(@, RespRow(i, d, NumResponses + 1, lab))]
    /\ hist' = LedgerObs("submit", d, c, "ok", EmptyLedger)
    /\ UNCHANGED <<ledger, cal, choices, holidayCache, calendarAvailable,
                   callsToday, callsThisRun, lockHolder, pc, succeeded>>

seedAvailabilityWindow ==
    /\ lockHolder = NoOne
    /\ ledger' = [c \in Cats |-> SeedSheet(ledger[c])]
    /\ hist' = [LedgerObs("seed", Today, 0, "ok", ledger) EXCEPT !.prevOp = hist.op]
    /\ UNCHANGED <<responses, cal, choices, holidayCache, calendarAvailable,
                   callsToday, callsThisRun, lockHolder, pc, succeeded>>

DecrementOutcome(L, d) ==
    IF isHoliday(d) THEN [ledger |-> L, result |-> "holiday"]
    ELSE LET L1 == DecrementReadPhase(L, d) IN
         IF hasOverbooking(L1, d)
         THEN [ledger |-> L1, result |-> "noslots"]
         ELSE [ledger |-> DecrementWritePhase(L1, d), result |-> "ok"]

decrementSlotAllCategories(d) ==
    /\ lockHolder = NoOne \/ isHoliday(d)
    /\ LET out == DecrementOutcome(ledger, d) IN
        /\ ledger' = out.ledger
        /\ succeeded' = IF out.result = "ok"
                        THEN [succeeded EXCEPT ![d] = Min(@ + 1, SLOT_CAP + 1)]
                        ELSE succeeded
        /\ hist' = LedgerObs("decrement", d, 0, out.result, ledger)
    /\ UNCHANGED <<responses, cal, choices, holidayCache, calendarAvailable,
                   callsToday, callsThisRun, lockHolder, pc>>

revertAvailabilityForDate(c, d) ==
    /\ ledger' = [ledger EXCEPT ![c] = RevertSheet(@, d)]
    /\ hist' = LedgerObs("revert", d, c, "ok", EmptyLedger)
    /\ UNCHANGED <<responses, cal, choices, holidayCache, calendarAvailable,
                   callsToday, callsThisRun, lockHolder, pc, succeeded>>

rebuildSlotCounters ==
    /\ lockHolder = NoOne
    /\ ledger' = [c \in Cats |-> RebuiltSheet(tallyByDate(getResponseDates(c)))]
    /\ hist' = LedgerObs("rebuildSlotCounters", 0, 0, "ok", EmptyLedger)
    /\ UNCHANGED <<responses, cal, choices, holidayCache, calendarAvailable,
                   callsToday, callsThisRun, lockHolder, pc, succeeded>>

rebuildAllAvailabilityAndCalendar ==
    /\ lockHolder = NoOne
    /\ LET S == RebuildEntries([ledger |-> ledger, K |-> Exec(cal, callsToday)], 1) IN
        /\ ledger' = S.ledger
        /\ Finish(S.K)
        /\ hist' = CalendarObs("rebuildAll", S.K)
    /\ UNCHANGED <<responses, choices, holidayCache, calendarAvailable,
                   lockHolder, pc, succeeded>>

syncOneForm(c) ==
    /\ lockHolder = NoOne
    /\ LET items == buildBusinessDays(tallyByDate(getResponseDates(c)))
           K == UpsertAvailable(Exec(cal, callsToday), ledger, items)
       IN  /\ choices' = [choices EXCEPT ![c] = items]
           /\ ledger' = [ledger EXCEPT ![c] = WrittenSheet(items)]
           /\ Finish(K)
           /\ hist' = [CalendarObs("syncOneForm", K) EXCEPT !.cat = c]
    /\ UNCHANGED <<responses, holidayCache, calendarAvailable,
                   lockHolder, pc, succeeded>>

updateAvailability_everywhere ==
    /\ lockHolder = NoOne
    /\ LET K1 == purgeWeekendSummaryEvents(purgeFutureSummaryEvents(
                     purgePastCalendarEvents(Exec(cal, callsToday))))
           L1 == [c \in Cats |-> SeedSheet(ledger[c])]
           K2 == syncDateRange(initRun(K1), L1, responses)
       IN  /\ ledger' = L1
           /\ choices' = [c \in Cats |-> NightlyLabels(L1)]
           /\ Finish(K2)
           /\ hist' = CalendarObs("nightly", K2)
    /\ UNCHANGED <<responses, holidayCache, calendarAvailable,
                   lockHolder, pc, succeeded>>

\* CalendarSyncService.syncDateRange(today, today + FUTURE_DAYS) run by itself
RunSyncDateRange ==
    /\ LET K == syncDateRange(Exec(cal, callsToday), ledger, responses) IN
        /\ Finish(K)
        /\ hist' = [CalendarObs("syncDateRange", K) EXCEPT
                       !.prevOp = hist.op, !.prevRefused = hist.refused,
                       !.prevN = hist.n]
    /\ UNCHANGED <<ledger, responses, choices, holidayCache, calendarAvailable,
                   lockHolder, pc, succeeded>>

\* HolidayService.fetchRange(start, end) called for a range of days
RunFetchRange(s, e) ==
    /\ s <= e
    /\ LET out == fetchRange(holidayCache, calendarAvailable, s, e) IN
        /\ holidayCache' = out.cache
        /\ hist' = [NoObs EXCEPT !.op = "fetchRange", !.day = s, !.from = e,
                                 !.set = out.dates]
    /\ UNCHANGED <<ledger, responses, cal, choices, calendarAvailable,
                   callsToday, callsThisRun, lockHolder, pc, succeeded>>

\* HolidayService.isHoliday(dateStr) asked for one date; the observation also
\* holds what fetchRange would answer for the whole of the model's days.
RunIsHoliday(d) ==
    /\ hist' = [NoObs EXCEPT !.op = "isHoliday", !.day = d,
                             !.result = IF isHoliday(d) THEN "yes" ELSE "no",
                             !.set = fetchRange(holidayCache, calendarAvailable,
                                                0, MaxDay).dates]
    /\ UNCHANGED <<ledger, responses, cal, choices, holidayCache, calendarAvailable,
                   callsToday, callsThisRun, lockHolder, pc, succeeded>>

\* The cache entry reaches HOLIDAY_CACHE_TTL.
HolidayCacheExpires ==
    /\ holidayCache # NoCache
    /\ holidayCache' = NoCache
    /\ hist' = [NoObs EXCEPT !.op = "expire"]
    /\ UNCHANGED <<ledger, responses, cal, choices, calendarAvailable,
                   callsToday, callsThisRun, lockHolder, pc, succeeded>>

\* CalendarSyncService.syncDateRange(today, today + FUTURE_DAYS) in which the
\* processing of the dates of fails throws
RunSyncDateRangeWithErrors(fails) ==
    /\ LET S == syncDateRangeWithErrors(Exec(cal, callsToday), ledger, responses, fails) IN
        /\ Finish(S.K)
        /\ hist' = [CalendarObs("syncErrors", S.K) EXCEPT
                       !.done = S.visited, !.prevN = S.errors, !.set = fails]
    /\ UNCHANGED <<ledger, responses, choices, holidayCache, calendarAvailable,
                   lockHolder, pc, succeeded>>

\* The calls the two counters still allow.
CallsAllowed(K) ==
    Min(CALENDAR_API_CALL_LIMIT_PER_RUN - K.run, CALENDAR_API_CALL_LIMIT_PER_DAY - K.day)

\* CalendarSyncService.syncSummaryEvents(dateStr, existingEvents, results) for
\* one date, with the tagged summary events listed for that date
RunSyncSummaryEvents(d) ==
    /\ LET K0 == [Exec(cal, callsToday) EXCEPT !.run = callsThisRun]
           existingEvents == SelectSeq(getEventsForDay(cal, d),
                                       LAMBDA r : isSummary(cal, r))
           K == syncSummaryEvents(K0, ledger, d, existingEvents)
       IN  /\ Finish(K)
           /\ hist' = [CalendarObs("syncSummary", K) EXCEPT
                          !.day = d, !.prevN = Len(existingEvents),
                          !.allowed = CallsAllowed(K0)]
    /\ UNCHANGED <<ledger, responses, choices, holidayCache, calendarAvailable,
                   lockHolder, pc, succeeded>>

\* CalendarQuotaManager.initRun()
RunInitRun ==
    /\ callsThisRun' = 0
    /\ hist' = LedgerObs("initRun", 0, 0, "ok", EmptyLedger)
    /\ UNCHANGED <<ledger, responses, cal, choices, holidayCache, calendarAvailable,
                   callsToday, lockHolder, pc, succeeded>>

resetCalendarQuotaDaily ==
    /\ callsToday' = 0
    /\ hist' = LedgerObs("resetDaily", 0, 0, "ok", EmptyLedger)
    /\ UNCHANGED <<ledger, responses, cal, choices, holidayCache, calendarAvailable,
                   callsThisRun, lockHolder, pc, succeeded>>

\* CalendarSyncService.getExpectedAppointmentsForDate(dateStr) asked for a date
ExpectedAppointments(d) ==
    /\ hist' = [LedgerObs("expected", d, 0, "ok", EmptyLedger) EXCEPT
                   !.titles = getExpectedAppointmentsForDate(responses, d)]
    /\ UNCHANGED <<ledger, responses, cal, choices, holidayCache, calendarAvailable,
                   callsToday, callsThisRun, lockHolder, pc, succeeded>>

----------------------------------------------------------------------------
(* The incremental path: one submission *)

\* Every entry of FORM_REGISTRY names the same spreadsheet.
spreadsheetId == [c \in Cats |-> "1SZqf77i655xHA1FI6YzeZ332E6M4Y_dpFmz_h1tM6xQ"]

\* FORM_REGISTRY.find(r => r.spreadsheetId === sheet.getParent().getId()), for a
\* submission that arrived in the response sheet of entry c: the first entry
\* of the registry with that spreadsheet.
registryEntryOf(c) ==
    CHOOSE r \in Cats : /\ spreadsheetId[r] = spreadsheetId[c]
                        /\ \A q \in Cats : spreadsheetId[q] = spreadsheetId[c] => r <= q

\* upsertDailySummaryEvent(appointmentDate, bookedCount, leftCount, entry): the
\* call returns before the lock when bookedCount is not a number.
upsertDailySummaryEventTyped(K, d, bookedIsNumber, leftCount) ==
    IF ~isValidBusinessDate(d) \/ ~bookedIsNumber THEN K
    ELSE upsertDailySummaryEvent(K, d, leftCount)

\* safeCreateEvent(() => calendar.createAllDayEvent(title, dateObj)): the closure
\* arrives as the title and no date arrives, CAL.createAllDayEvent(closure,
\* undefined) throws inside the try, nothing is recorded and null is returned.
safeCreateEventClosure(K) == IF canCall(K) THEN K ELSE Refused(K)

\* safeDeleteEvent(() => evt.deleteEvent()): the closure has no deleteEvent, the
\* call throws inside the try and false is returned.
safeDeleteEventClosure(K) == IF canCall(K) THEN K ELSE Refused(K)

\* syncAppointmentsForDate(dateObj, [request], calendar)
syncAppointmentsForDate(K, d, c, i) ==
    LET expected == AppointmentTitle(c, i)
        events == SelectSeq(getEventsForDay(K.cal, d),
                            LAMBDA r : isAppointment(K.cal, r))
        existing == {EventAt(K.cal, events[k]).title : k \in 1..Len(events)}
        K1 == IF expected \notin existing THEN safeCreateEventClosure(K) ELSE K
    IN  IF existing \ {expected} # {} THEN safeDeleteEventClosure(K1) ELSE K1

\* updateFormDropdownForDate_: the choice of the date gets the new count, or
\* is dropped when no slot is left; setChoiceValues refuses an empty list (the
\* error is caught and the list stays as it was).
updateFormDropdownForDate(list, d, slotsLeft) ==
    LET updated == [k \in 1..Len(list) |->
                       IF list[k].day = d THEN Choice(d, slotsLeft) ELSE list[k]]
        kept == SelectSeq(updated, LAMBDA ch : ch.day # d \/ slotsLeft > 0)
    IN  IF kept = <<>> THEN list ELSE kept

\* purgeOldResponses: a row goes when new Date(cell of column RESP_DATE_COL) is
\* a date before now - RESPONSE_RETENTION_DAYS.  The cell is the chosen date or
\* its choice label; whether new Date() reads a date out of a label is left
\* open (parsesLabel).
isOldResponse(row, parsesLabel) ==
    /\ row.label = "bare" \/ parsesLabel
    /\ startOfDay(row.day) < Now - 2 * RESPONSE_RETENTION_DAYS

purgeOldResponses(rows, parsesLabel) ==
    SelectSeq(rows, LAMBDA row : ~isOldResponse(row, parsesLabel))

\* purgeOldResponses(registryEntry) called by itself, as purgeOldResponsesAll
\* calls it for every entry
RunPurgeOldResponses(c, parsesLabel) ==
    /\ responses' = [responses EXCEPT ![c] = purgeOldResponses(@, parsesLabel)]
    /\ hist' = [NoObs EXCEPT !.op = "purge", !.cat = c, !.done = responses[c]]
    /\ UNCHANGED <<ledger, cal, choices, holidayCache, calendarAvailable,
                   callsToday, callsThisRun, lockHolder, pc, succeeded>>

MinLeft(L, d) == CHOOSE m \in {L[c][d].left : c \in Cats} :
                     \A c \in Cats : m <= L[c][d].left

\* onFormSubmit(e) for the response (identity i, chosen date d, date cell lab)
\* that the form has just stored in the response sheet of entry c.  The submit
\* counter and the fallback trigger it schedules are not part of the state.
onFormSubmit(c, i, d, lab, parsesLabel) ==
    /\ lockHolder = NoOne
    /\ NumResponses < MaxResp
    /\ LET stored == [responses EXCEPT
                         ![c] = Append(@, RespRow(i, d, NumResponses + 1, lab))]
           entry == registryEntryOf(c)
           out == DecrementOutcome(ledger, d)
           K0 == initRun(Exec(cal, callsToday))
           obs(K) == [CalendarObs("onFormSubmit", K) EXCEPT
                         !.day = d, !.cat = entry, !.from = c, !.ident = i,
                         !.result = out.result, !.pre = ledger]
       IN  /\ ledger' = out.ledger
           /\ IF out.result # "ok"
              THEN /\ responses' = stored
                   /\ Finish(K0)
                   /\ hist' = obs(K0)
                   /\ UNCHANGED <<choices, succeeded>>
              ELSE LET minLeft == MinLeft(out.ledger, d)
                       K1 == upsertDailySummaryEventTyped(K0, d, FALSE, minLeft)
                       K2 == syncAppointmentsForDate(K1, d, entry, i)
                   IN  /\ choices' = [choices EXCEPT ![entry] =
                                         updateFormDropdownForDate(@, d, minLeft)]
                       /\ responses' = [stored EXCEPT ![entry] =
                                           purgeOldResponses(@, parsesLabel)]
                       /\ succeeded' = [succeeded EXCEPT ![d] = Min(@ + 1, SLOT_CAP + 1)]
                       /\ Finish(K2)
                       /\ hist' = obs(K2)
    /\ UNCHANGED <<holidayCache, calendarAvailable, lockHolder, pc>>

\* validateSummaryWindow: every date from today to today + FUTURE_DAYS; a
\* valid business date without a summary is handed to upsertDailySummaryEvent
\* with bookedCount undefined, one with several loses all but the first, an
\* invalid date loses its summaries.
RECURSIVE ValidateDates(_, _, _)
ValidateDates(K, L, d) ==
    IF d > Today + FUTURE_DAYS THEN K
    ELSE LET existingEvents == SelectSeq(getEventsForDay(K.cal, d),
                                         LAMBDA r : isSummary(K.cal, r))
             K1 == IF isValidBusinessDate(d)
                   THEN IF Len(existingEvents) = 0
                        THEN upsertDailySummaryEventTyped(K, d, FALSE,
                                                          getAvailabilityForDate(L, d))
                        ELSE SafeDeleteEach(K, Tail(existingEvents))
                   ELSE SafeDeleteEach(K, existingEvents)
         IN  ValidateDates(K1, L, d + 1)

validateSummaryWindow ==
    /\ LET K == ValidateDates([Exec(cal, callsToday) EXCEPT !.run = callsThisRun],
                              ledger, Today)
       IN  /\ Finish(K)
           /\ hist' = CalendarObs("validate", K)
    /\ UNCHANGED <<ledger, responses, choices, holidayCache, calendarAvailable,
                   lockHolder, pc, succeeded>>

\* upsertDailySummaryEvent(date, booked, left, entry) with numbers for booked
\* and left, called for one date
RunUpsert(d, leftCount) ==
    /\ LET K == upsertDailySummaryEvent([Exec(cal, callsToday) EXCEPT !.run = callsThisRun],
                                        d, leftCount)
       IN  /\ Finish(K)
           /\ hist' = [CalendarObs("upsert", K) EXCEPT !.day = d]
    /\ UNCHANGED <<ledger, responses, choices, holidayCache, calendarAvailable,
                   lockHolder, pc, succeeded>>

\* The advance window (sixty days in the script) is the window of the model.
MAX_ADVANCE_DAYS == FUTURE_DAYS

\* createCalendarEventFromResponse_(responseData, registry, chosenDateObj): an
\* event of the same title on the day is returned as it is; otherwise the
\* event is created through safeCreateEvent, and when that returns null (the
\* quota refuses the call) the error thrown is caught, revertAvailabilityForDate_
\* is run on the registry entry's sheet, and the error is thrown again.
ResponseDetails == "Last Name: ..."

createCalendarEventFromResponse(S, c, i, d) ==
    LET title == AppointmentTitle(c, i)
        existing == SelectSeq(getEventsForDay(S.K.cal, d),
                              LAMBDA r : EventAt(S.K.cal, r).title = title)
    IN  IF Len(existing) > 0 THEN S
        ELSE IF canCall(S.K)
        THEN [S EXCEPT !.K = recordCall(createAllDayEvent(S.K, d, Event(title, ResponseDetails)))]
        ELSE [ledger |-> [S.ledger EXCEPT ![c] = RevertSheet(@, d)],
              K |-> Refused(S.K)]

\* rebuildAppointmentEventsAllForms, step 3: the rows of every response sheet
\* in turn; a row is passed on when its date, at midnight, lies between now
\* and now + MAX_ADVANCE_DAYS and is no holiday, and the error of a row is
\* caught before the next row.
RECURSIVE RecreateRows(_, _, _)
RecreateRows(S, c, k) ==
    IF c > Len(FORM_REGISTRY) THEN S
    ELSE IF k > Len(responses[c]) THEN RecreateRows(S, c + 1, 1)
    ELSE LET d == responses[c][k].day
             S1 == IF /\ startOfDay(d) >= Now
                      /\ startOfDay(d) <= Now + 2 * MAX_ADVANCE_DAYS
                      /\ ~isHoliday(d)
                   THEN createCalendarEventFromResponse(S, c, responses[c][k].ident, d)
                   ELSE S
         IN  RecreateRows(S1, c, k + 1)

\* rebuildAppointmentEventsAllForms.  Step 2 deletes nothing: its filter
\* ev.getTitle().startsWith(TAG_APPOINTMENT) throws on the first event, and
\* the error is caught around the step.
rebuildAppointmentEventsAllForms ==
    /\ lockHolder = NoOne
    /\ LET S == RecreateRows([ledger |-> ledger, K |-> Exec(cal, callsToday)], 1, 1) IN
        /\ ledger' = S.ledger
        /\ Finish(S.K)
        /\ hist' = [CalendarObs("rebuildAppointments", S.K) EXCEPT !.pre = ledger]
    /\ UNCHANGED <<responses, choices, holidayCache, calendarAvailable,
                   lockHolder, pc, succeeded>>

\* HolidayService.upsertHolidayEvents: a holiday date without a holiday event
\* gets one, when the quota allows the call (the dates taken in calendar
\* order).
HolidayEvent == Event(Title("holiday", 0, "", 0, ""), NoDescription)
hasHolidayTag(e) == e.title.kind = "holiday"

RECURSIVE upsertHolidayEvents(_, _, _)
upsertHolidayEvents(K, holidayDates, d) ==
    IF d > MaxDay THEN K
    ELSE LET existingEvents == SelectSeq(getEventsForDay(K.cal, d),
                                         LAMBDA r : hasHolidayTag(EventAt(K.cal, r)))
             K1 == IF d \in holidayDates /\ Len(existingEvents) = 0 /\ canCall(K)
                   THEN recordCall(createAllDayEvent(K, d, HolidayEvent))
                   ELSE K
         IN  upsertHolidayEvents(K1, holidayDates, d + 1)

\* removeHolidaySummaries: on every holiday date the events of the day are
\* filtered by ev.getTitle().startsWith(TAG_APPOINTMENT).  No TAG_APPOINTMENT
\* is declared, so the filter throws on the first event it is applied to,
\* before anything was deleted; with no event on any holiday date nothing is
\* collected and nothing is deleted.
removeHolidaySummariesThrows(C, holidayDates) ==
    \E d \in holidayDates : Len(getEventsForDay(C, d)) > 0

\* The orphans checkCalendarIntegrity collects among the upcoming events:
\* title.startsWith(TAG_APPOINTMENT) throws for every event, the catch around
\* it reports the error, and no event is collected (so the refresh of the
\* summaries of the dates of deleted orphans never runs).
orphanedEvents(C, validDates) == <<>>

\* checkCalendarIntegrity.  The script properties LAST_INTEGRITY_TS and
\* LAST_RESPONSE_COUNT are inputs: throttled says that the last check was less
\* than a minute ago, sameCount that the first form has as many responses as
\* at the last check.  The lock is free (a busy lock makes the check return at
\* once) and the holidays are cached, as they are for HOLIDAY_CACHE_TTL after
\* any fetchRange.
checkCalendarIntegrity(throttled, sameCount) ==
    /\ lockHolder = NoOne
    /\ holidayCache # NoCache
    /\ LET K0 == [Exec(cal, callsToday) EXCEPT !.run = callsThisRun]
           dates == getResponseDates(1)
           validDates == {dates[k] : k \in 1..Len(dates)}
           holidaySet == fetchRange(holidayCache, calendarAvailable,
                                    Today, Today + MAX_ADVANCE_DAYS).dates
           K1 == upsertHolidayEvents(K0, holidaySet, Today)
           K2 == purgePastCalendarEvents(K1)
           K3 == purgeFutureSummaryEvents(K2)
           K4 == purgeWeekendSummaryEvents(K3)
           K5 == ValidateDates(K4, ledger, Today)
           K6 == DeleteEach(K5, orphanedEvents(K5.cal, validDates))
           kept == SelectSeq(choices[1], LAMBDA ch : ch.day # Today - 1)
           obs(K, res) == [CalendarObs("integrity", K) EXCEPT !.result = res]
       IN  IF throttled
           THEN hist' = obs(K0, "throttled") /\ UNCHANGED <<cal, callsToday, callsThisRun, choices>>
           ELSE IF sameCount
           THEN hist' = obs(K0, "unchanged") /\ UNCHANGED <<cal, callsToday, callsThisRun, choices>>
           ELSE IF removeHolidaySummariesThrows(cal, holidaySet)
           THEN hist' = obs(K0, "threw") /\ UNCHANGED <<cal, callsToday, callsThisRun, choices>>
           ELSE /\ Finish(K6)
                /\ choices' = [choices EXCEPT ![1] = IF kept = <<>> THEN @ ELSE kept]
                /\ hist' = obs(K6, "done")
    /\ UNCHANGED <<ledger, responses, holidayCache, calendarAvailable,
                   lockHolder, pc, succeeded>>

----------------------------------------------------------------------------
(* Handlers step by step, for executions that overlap *)

\* LockService.getScriptLock(): tryLock succeeds when the lock is free or
\* already held by the caller; releaseLock gives up the caller's hold, however
\* many times the caller had acquired it.
LockNeverBusy(e) == TRUE

CanLock(e) == lockHolder \in {NoOne, e}
Released(e) == IF lockHolder = e THEN NoOne ELSE lockHolder

At(e, pos) == pc[e].at = pos
Goto(e, pos) == pc' = [pc EXCEPT ![e].at = pos]

\* Whether the writer of a ledger cell holds the lock at the time of the write.
WriteObs(e, c, d) ==
    LedgerObs("write", d, c, IF lockHolder = e THEN "locked" ELSE "unlocked",
              EmptyLedger)

\* rebuildAllAvailabilityAndCalendar: tryLock
RebuildAcquire(e) ==
    /\ At(e, "idle")
    /\ lockHolder = NoOne
    /\ lockHolder' = e
    /\ pc' = [pc EXCEPT ![e] = [Idle EXCEPT !.at = "rebuildWrite", !.entry = 1]]
    /\ UNCHANGED <<ledger, responses, cal, choices, holidayCache, calendarAvailable,
                   callsToday, callsThisRun, succeeded, hist>>

\* steps 1-4 for one entry: tally, clearContents, write the rows
RebuildWrite(e) ==
    /\ At(e, "rebuildWrite")
    /\ ledger' = [ledger EXCEPT ![pc[e].entry] =
                      RebuiltSheet(tallyByDate(getResponseDates(pc[e].entry)))]
    /\ hist' = WriteObs(e, pc[e].entry, 0)
    /\ Goto(e, "rebuildPurge")
    /\ UNCHANGED <<responses, cal, choices, holidayCache, calendarAvailable,
                   callsToday, callsThisRun, lockHolder, succeeded>>

\* step 5: purgeCalendarEventsForForm(entry), which acquires and releases
RebuildPurge(e) ==
    /\ At(e, "rebuildPurge")
    /\ IF CanLock(e)
       THEN LET K == purgeCalendarEventsForForm(
                         [Exec(cal, callsToday) EXCEPT !.run = pc[e].run], pc[e].entry)
            IN  /\ cal' = Compact(K.cal)
                /\ lockHolder' = NoOne
       ELSE UNCHANGED <<cal, lockHolder>>
    /\ Goto(e, "rebuildUpsert")
    /\ UNCHANGED <<ledger, responses, choices, holidayCache, calendarAvailable,
                   callsToday, callsThisRun, succeeded, hist>>

\* step 6: upsertDailySummaryEvent for every tallied date that is a valid
\* business date; each acquires and releases, or is skipped when the lock is
\* busy.  Then the next entry, or the end of the loop.
RebuildUpsert(e) ==
    /\ At(e, "rebuildUpsert")
    /\ LET c == pc[e].entry
           dates == SelectSeq(TalliedDates(c), isValidBusinessDate)
           K == UpsertTallied([Exec(cal, callsToday) EXCEPT !.run = pc[e].run],
                              ledger, c, dates)
           took == dates # <<>> /\ CanLock(e)
       IN  /\ IF took
              THEN cal' = Compact(K.cal) /\ callsToday' = K.day /\ lockHolder' = NoOne
              ELSE UNCHANGED <<cal, callsToday, lockHolder>>
           /\ pc' = [pc EXCEPT ![e] =
                  [@ EXCEPT !.run = IF took THEN K.run ELSE @,
                            !.at = IF c < Len(FORM_REGISTRY) THEN "rebuildWrite"
                                   ELSE "rebuildRelease",
                            !.entry = IF c < Len(FORM_REGISTRY) THEN c + 1 ELSE c]]
    /\ UNCHANGED <<ledger, responses, choices, holidayCache, calendarAvailable,
                   callsThisRun, succeeded, hist>>

\* finally { lock.releaseLock() }
RebuildRelease(e) ==
    /\ At(e, "rebuildRelease")
    /\ lockHolder' = Released(e)
    /\ callsThisRun' = pc[e].run
    /\ pc' = [pc EXCEPT ![e] = Idle]
    /\ UNCHANGED <<ledger, responses, cal, choices, holidayCache, calendarAvailable,
                   callsToday, succeeded, hist>>

\* decrementSlotAllCategories(date): holiday guard passed, tryLock
DecrementAcquire(e, d) ==
    /\ At(e, "idle")
    /\ ~isHoliday(d)
    /\ lockHolder = NoOne
    /\ lockHolder' = e
    /\ pc' = [pc EXCEPT ![e] = [Idle EXCEPT !.at = "decrementRead", !.day = d]]
    /\ UNCHANGED <<ledger, responses, cal, choices, holidayCache, calendarAvailable,
                   callsToday, callsThisRun, succeeded, hist>>

\* phase 1: read every sheet, creating the missing rows
DecrementRead(e) ==
    /\ At(e, "decrementRead")
    /\ LET d == pc[e].day
           L1 == DecrementReadPhase(ledger, d)
       IN  /\ ledger' = L1
           /\ hist' = IF L1 # ledger THEN WriteObs(e, 0, d) ELSE hist
           /\ pc' = [pc EXCEPT ![e] =
                  [@ EXCEPT !.read = [c \in Cats |-> L1[c][d].left],
                            !.at = IF hasOverbooking(L1, d) THEN "decrementRelease"
                                   ELSE "decrementWrite"]]
    /\ UNCHANGED <<responses, cal, choices, holidayCache, calendarAvailable,
                   callsToday, callsThisRun, lockHolder, succeeded>>

\* phase 2: booked re-read + 1 and the left read in phase 1 - 1, written to the
\* row found in phase 1 (a row cleared away meanwhile is not one of the date)
DecrementWrite(e) ==
    /\ At(e, "decrementWrite")
    /\ LET d == pc[e].day IN
        /\ ledger' = [c \in Cats |-> [ledger[c] EXCEPT ![d] =
               IF @.present THEN Row(@.booked + 1, Max(0, pc[e].read[c] - 1)) ELSE @]]
        /\ succeeded' = [succeeded EXCEPT ![d] = Min(@ + 1, SLOT_CAP + 1)]
        /\ hist' = WriteObs(e, 0, d)
    /\ Goto(e, "decrementRelease")
    /\ UNCHANGED <<responses, cal, choices, holidayCache, calendarAvailable,
                   callsToday, callsThisRun, lockHolder>>

DecrementRelease(e) ==
    /\ At(e, "decrementRelease")
    /\ lockHolder' = Released(e)
    /\ pc' = [pc EXCEPT ![e] = Idle]
    /\ UNCHANGED <<ledger, responses, cal, choices, holidayCache, calendarAvailable,
                   callsToday, callsThisRun, succeeded, hist>>

----------------------------------------------------------------------------
(* Orchestrators step by step *)

\* if (!lock.tryLock(LOCK_TIMEOUT_MS)) { log; return }: the execution stays
\* idle and nothing but the log is written.
LockBusy(op) == hist' = [NoObs EXCEPT !.op = op, !.result = "busy"]

\* updateFormDateDropdown_: the rows of the entry's sheet from now to
\* MAX_ADVANCE_DAYS ahead that are no holiday, no weekend and have slots left;
\* an empty list is not written.
DropdownFromSheet(S, old) ==
    LET all == [k \in 1..(MaxDay + 1) |-> Choice(k - 1, S[k - 1].left)]
        keep(ch) == /\ S[ch.day].present
                    /\ ~(startOfDay(ch.day) < Now)
                    /\ ~(startOfDay(ch.day) > Now + 2 * MAX_ADVANCE_DAYS)
                    /\ ~isHoliday(ch.day)
                    /\ ~isWeekend(ch.day)
                    /\ ch.left > 0
        list == SelectSeq(all, keep)
    IN  IF list = <<>> THEN old ELSE list

rebuildAllFormDropdowns(e) ==
    /\ At(e, "idle")
    /\ IF CanLock(e)
       THEN /\ choices' = [c \in Cats |-> DropdownFromSheet(ledger[c], choices[c])]
            /\ hist' = [NoObs EXCEPT !.op = "dropdowns", !.result = "ok"]
       ELSE LockBusy("dropdowns") /\ UNCHANGED choices
    /\ UNCHANGED <<ledger, responses, cal, holidayCache, calendarAvailable,
                   callsToday, callsThisRun, lockHolder, pc, succeeded>>

\* AvailabilityService.seedAvailabilityWindow called by itself
SeedRun(e) ==
    /\ At(e, "idle")
    /\ IF CanLock(e)
       THEN /\ ledger' = [c \in Cats |-> SeedSheet(ledger[c])]
            /\ hist' = LedgerObs("seed", Today, 0, "ok", ledger)
       ELSE LockBusy("seed") /\ UNCHANGED ledger
    /\ UNCHANGED <<responses, cal, choices, holidayCache, calendarAvailable,
                   callsToday, callsThisRun, lockHolder, pc, succeeded>>

\* AvailabilityService.decrementSlotAllCategories called by itself; with the
\* lock busy it throws 'System busy' to its caller before any read or write.
DecrementRun(e, d) ==
    /\ At(e, "idle")
    /\ IF isHoliday(d) \/ CanLock(e)
       THEN LET out == DecrementOutcome(ledger, d) IN
                /\ ledger' = out.ledger
                /\ succeeded' = IF out.result = "ok"
                                THEN [succeeded EXCEPT ![d] = Min(@ + 1, SLOT_CAP + 1)]
                                ELSE succeeded
                /\ hist' = LedgerObs("decrement", d, 0, out.result, ledger)
       ELSE LockBusy("decrement") /\ UNCHANGED <<ledger, succeeded>>
    /\ UNCHANGED <<responses, cal, choices, holidayCache, calendarAvailable,
                   callsToday, callsThisRun, lockHolder, pc>>

\* The steps of updateAvailability_everywhere between its tryLock and its
\* finally, in the order of the code.
NightlyOrderSyncFirst ==
    <<"purgePast", "purgeFuture", "purgeWeekend", "sync", "seed", "labels">>

NightlyOrder ==
    <<"purgePast", "purgeFuture", "purgeWeekend", "seed", "sync", "labels">>

NightlyAcquire(e) ==
    /\ At(e, "idle")
    /\ IF CanLock(e)
       THEN /\ lockHolder' = e
            /\ pc' = [pc EXCEPT ![e] = [Idle EXCEPT !.at = "nightly", !.entry = 1,
                                                     !.run = callsThisRun]]
            /\ UNCHANGED hist
       ELSE LockBusy("nightly") /\ UNCHANGED <<lockHolder, pc>>
    /\ UNCHANGED <<ledger, responses, cal, choices, holidayCache, calendarAvailable,
                   callsToday, callsThisRun, succeeded>>

\* One step of the nightly run.  A step that throws leaves the try block for
\* the catch (which rethrows) and the finally.  seedAvailabilityWindow is
\* preceded by CalendarQuotaManager.initRun() and ends with its own
\* releaseLock.
NightlyStep(e, throws) ==
    /\ At(e, "nightly")
    /\ LET name == NightlyOrder[pc[e].entry]
           K == [Exec(cal, callsToday) EXCEPT !.run = pc[e].run]
           K1 == IF name = "purgePast" THEN purgePastCalendarEvents(K)
                 ELSE IF name = "purgeFuture" THEN purgeFutureSummaryEvents(K)
                 ELSE IF name = "purgeWeekend" THEN purgeWeekendSummaryEvents(K)
                 ELSE IF name = "seed" THEN initRun(K)
                 ELSE IF name = "sync" THEN syncDateRange(K, ledger, responses)
                 ELSE K
           last == pc[e].entry = Len(NightlyOrder)
       IN  IF throws
           THEN /\ pc' = [pc EXCEPT ![e].at = "nightlyRelease", ![e].threw = TRUE]
                /\ UNCHANGED <<ledger, cal, choices, callsToday, lockHolder>>
           ELSE /\ cal' = Compact(K1.cal)
                /\ callsToday' = K1.day
                /\ ledger' = IF name = "seed" /\ CanLock(e)
                             THEN [c \in Cats |-> SeedSheet(ledger[c])] ELSE ledger
                /\ lockHolder' = IF name = "seed" /\ CanLock(e) THEN NoOne ELSE lockHolder
                /\ choices' = IF name = "labels"
                              THEN [c \in Cats |-> NightlyLabels(ledger)] ELSE choices
                /\ pc' = [pc EXCEPT ![e] =
                       [@ EXCEPT !.run = K1.run,
                                 !.done = Append(@, name),
                                 !.entry = IF last THEN @ ELSE @ + 1,
                                 !.at = IF last THEN "nightlyRelease" ELSE @]]
    /\ UNCHANGED <<responses, holidayCache, calendarAvailable, callsThisRun,
                   succeeded, hist>>

\* finally { lock.releaseLock() }
NightlyRelease(e) ==
    /\ At(e, "nightlyRelease")
    /\ lockHolder' = Released(e)
    /\ callsThisRun' = pc[e].run
    /\ hist' = [NoObs EXCEPT !.op = "nightlyEnd", !.done = pc[e].done,
                             !.result = IF pc[e].threw THEN "threw" ELSE "ok"]
    /\ pc' = [pc EXCEPT ![e] = Idle]
    /\ UNCHANGED <<ledger, responses, cal, choices, holidayCache, calendarAvailable,
                   callsToday, succeeded>>

\* onFormSubmit(e): the form has stored the response row; tryLock
SubmitAcquire(e, c, i, d) ==
    /\ At(e, "idle")
    /\ NumResponses < MaxResp
    /\ responses' = [responses EXCEPT
           ![c] = Append(@, RespRow(i, d, NumResponses + 1, "label"))]
    /\ IF CanLock(e)
       THEN /\ lockHolder' = e
            /\ pc' = [pc EXCEPT ![e] = [Idle EXCEPT !.at = "submitDecrement", !.day = d,
                                                     !.entry = registryEntryOf(c),
                                                     !.ident = i]]
            /\ UNCHANGED hist
       ELSE LockBusy("onFormSubmit") /\ UNCHANGED <<lockHolder, pc>>
    /\ UNCHANGED <<ledger, cal, choices, holidayCache, calendarAvailable,
                   callsToday, callsThisRun, succeeded>>

\* initRun, then decrementSlotAllCategories, which takes the lock again and
\* releases it in its finally; its throw ('No slots left', holiday, 'System
\* busy') is caught by onFormSubmit, which returns through its own finally.
SubmitDecrement(e) ==
    /\ At(e, "submitDecrement")
    /\ LET d == pc[e].day
           took == ~isHoliday(d) /\ CanLock(e)
           out == IF isHoliday(d) \/ CanLock(e) THEN DecrementOutcome(ledger, d)
                  ELSE [ledger |-> ledger, result |-> "busy"]
       IN  /\ ledger' = out.ledger
           /\ lockHolder' = IF took THEN NoOne ELSE lockHolder
           /\ succeeded' = IF out.result = "ok"
                           THEN [succeeded EXCEPT ![d] = Min(@ + 1, SLOT_CAP + 1)]
                           ELSE succeeded
           /\ hist' = LedgerObs("decrement", d, 0, out.result, ledger)
           /\ pc' = [pc EXCEPT ![e].run = 0,
                               ![e].at = IF out.result = "ok" THEN "submitRest"
                                         ELSE "submitRelease"]
    /\ UNCHANGED <<responses, cal, choices, holidayCache, calendarAvailable,
                   callsToday, callsThisRun>>

\* summary upsert, appointment sync, choice-list update, response pruning
SubmitRest(e, parsesLabel) ==
    /\ At(e, "submitRest")
    /\ LET d == pc[e].day
           entry == pc[e].entry
           minLeft == MinLeft(ledger, d)
           K0 == [Exec(cal, callsToday) EXCEPT !.run = pc[e].run]
           K1 == upsertDailySummaryEventTyped(K0, d, FALSE, minLeft)
           K2 == syncAppointmentsForDate(K1, d, entry, pc[e].ident)
       IN  /\ cal' = Compact(K2.cal)
           /\ callsToday' = K2.day
           /\ choices' = [choices EXCEPT ![entry] = updateFormDropdownForDate(@, d, minLeft)]
           /\ responses' = [responses EXCEPT ![entry] = purgeOldResponses(@, parsesLabel)]
           /\ pc' = [pc EXCEPT ![e].run = K2.run, ![e].at = "submitRelease"]
    /\ UNCHANGED <<ledger, holidayCache, calendarAvailable, callsThisRun,
                   lockHolder, succeeded, hist>>

\* finally { lock.releaseLock() }
SubmitRelease(e) ==
    /\ At(e, "submitRelease")
    /\ lockHolder' = Released(e)
    /\ callsThisRun' = pc[e].run
    /\ pc' = [pc EXCEPT ![e] = Idle]
    /\ UNCHANGED <<ledger, responses, cal, choices, holidayCache, calendarAvailable,
                   callsToday, succeeded, hist>>

----------------------------------------------------------------------------
(* Specifications *)

HolidayStates ==
    /\ holidayCache \in {NoCache, RemoteHolidays}
    /\ calendarAvailable \in BOOLEAN

\* The remote holiday calendar answers and nothing is cached yet.
RemoteAnswers ==
    /\ holidayCache = NoCache
    /\ calendarAvailable = TRUE

InitStores(L, R, C) ==
    /\ ledger = L
    /\ responses = R
    /\ cal = C
    /\ choices = [c \in Cats |-> <<>>]
    /\ callsToday = 0
    /\ callsThisRun = 0
    /\ lockHolder = NoOne
    /\ pc = [e \in Execs |-> Idle]
    /\ succeeded = [d \in Days |-> 0]
    /\ hist = NoObs

InitWith(L, R, C) == HolidayStates /\ InitStores(L, R, C)

NoResponses == [c \in Cats |-> <<>>]

\* Booking: seeding, all-category decrements and single-category reverts on
\* a working day and on the two holidays.
BookDays == {Today, Today + 1, Today + 2}

InitBooking == InitWith(EmptyLedger, NoResponses, EmptyCalendar)

NextBooking ==
    \/ seedAvailabilityWindow
    \/ \E d \in BookDays : decrementSlotAllCategories(d)
    \/ \E c \in Cats, d \in BookDays : revertAvailabilityForDate(c, d)

SpecBooking == InitBooking /\ [][NextBooking]_vars

\* Decrements only, on a freshly seeded ledger.
WindowDays == Today..(Today + FUTURE_DAYS)

SeededLedger == [c \in Cats |-> SeedSheet(EmptySheet)]

InitSeeded == InitWith(SeededLedger, NoResponses, EmptyCalendar)

NextDecrementOnly == \E d \in WindowDays : decrementSlotAllCategories(d)

SpecDecrementOnly == InitSeeded /\ [][NextDecrementOnly]_vars

\* The ledger under every operation that writes it, with responses for today.
InitLedger == RemoteAnswers /\ InitStores(EmptyLedger, NoResponses, EmptyCalendar)

NextLedger ==
    \/ SubmitResponse(1, "a", Today, "label")
    \/ seedAvailabilityWindow
    \/ decrementSlotAllCategories(Today)
    \/ revertAvailabilityForDate(1, Today)
    \/ rebuildSlotCounters
    \/ rebuildAllAvailabilityAndCalendar
    \/ syncOneForm(1)

SpecLedger == InitLedger /\ [][NextLedger]_vars

\* The calendar under the nightly run and the sync by itself, starting from
\* calendars that carry stale summaries: of yesterday, of today, of a holiday,
\* of a weekend day, of the day after the window.
MaxStale == 2

FirstWeekend == CHOOSE d \in WindowDays :
                    isWeekend(d) /\ \A e \in WindowDays : isWeekend(e) => d <= e

DriftDays == {Today - 1, Today, Today + 2, FirstWeekend, Today + FUTURE_DAYS + 1}

StaleSummary == Event(SyncSummaryTitle(SLOT_CAP), NoDescription)

RECURSIVE SumOver(_, _)
SumOver(f, S) ==
    IF S = {} THEN 0
    ELSE LET x == CHOOSE x \in S : TRUE IN f[x] + SumOver(f, S \ {x})

StaleCalendars ==
    {[d \in Days |-> [k \in 1..(IF d \in DriftDays THEN f[d] ELSE 0) |-> StaleSummary]] :
        f \in {g \in [DriftDays -> 0..MaxStale] : SumOver(g, DriftDays) <= MaxStale}}

InitCalendar ==
    /\ RemoteAnswers
    /\ \E C \in StaleCalendars : InitStores(EmptyLedger, NoResponses, C)

NextCalendar ==
    \/ SubmitResponse(1, "a", Today, "bare")
    \/ decrementSlotAllCategories(Today)
    \/ updateAvailability_everywhere
    \/ RunSyncDateRange

SpecCalendar == InitCalendar /\ [][NextCalendar]_vars

\* Two executions that overlap: a full rebuild and bookings for today.
InitLock == RemoteAnswers /\ InitStores(EmptyLedger, NoResponses, EmptyCalendar)

NextLock ==
    \E e \in Execs :
        \/ RebuildAcquire(e)
        \/ RebuildWrite(e)
        \/ RebuildPurge(e)
        \/ RebuildUpsert(e)
        \/ RebuildRelease(e)
        \/ DecrementAcquire(e, Today)
        \/ DecrementRead(e)
        \/ DecrementWrite(e)
        \/ DecrementRelease(e)

SpecLock == InitLock /\ [][NextLock]_vars

\* The expected appointments of a date, over response sheets that grow.
ResponseDays == {Today, Today + 3}

InitAppointments == RemoteAnswers /\ InitStores(EmptyLedger, NoResponses, EmptyCalendar)

NextAppointments ==
    \/ \E c \in Cats, i \in Idents, d \in ResponseDays, lab \in {"bare", "label"} :
           SubmitResponse(c, i, d, lab)
    \/ \E d \in ResponseDays : ExpectedAppointments(d)

SpecAppointments == InitAppointments /\ [][NextAppointments]_vars

\* Submissions through the forms and nightly runs in between.
IntakeDays == {Today - RESPONSE_RETENTION_DAYS, Today, Today + 2}

InitIntake == RemoteAnswers /\ InitStores(EmptyLedger, NoResponses, EmptyCalendar)

NextIntake ==
    \/ \E c \in Cats, d \in IntakeDays, parsesLabel \in BOOLEAN :
           onFormSubmit(c, "a", d, "label", parsesLabel)
    \/ updateAvailability_everywhere

SpecIntake == InitIntake /\ [][NextIntake]_vars

\* Two requesters after the slots of today, their date cells the bare date.
NextRejected ==
    \/ \E i \in Idents : onFormSubmit(1, i, Today, "bare", FALSE)
    \/ updateAvailability_everywhere

SpecRejected == InitIntake /\ [][NextRejected]_vars

\* Seeding over ledgers that hold rows of a working day, of a weekend day of the
\* window and of a day after the window.
SeedDays == {Today, FirstWeekend, Today + FUTURE_DAYS + 1}

InitSeed == InitWith(EmptyLedger, NoResponses, EmptyCalendar)

NextSeed ==
    \/ seedAvailabilityWindow
    \/ \E d \in SeedDays : decrementSlotAllCategories(d)
    \/ revertAvailabilityForDate(1, Today)

SpecSeed == InitSeed /\ [][NextSeed]_vars

\* One execution runs the nightly reconciliation while the other runs
\* submissions and the operations that take the lock by themselves; both find
\* the lock busy at times.
InitOrchestrators == RemoteAnswers /\ InitStores(EmptyLedger, NoResponses, EmptyCalendar)

NextOrchestrators ==
    \/ NightlyAcquire("e2")
    \/ \E throws \in BOOLEAN : NightlyStep("e2", throws)
    \/ NightlyRelease("e2")
    \/ SubmitAcquire("e1", 2, "a", Today)
    \/ SubmitDecrement("e1")
    \/ SubmitRest("e1", FALSE)
    \/ SubmitRelease("e1")
    \/ rebuildAllFormDropdowns("e1")
    \/ SeedRun("e1")
    \/ DecrementRun("e1", Today)

SpecOrchestrators == InitOrchestrators /\ [][NextOrchestrators]_vars

\* The sync of one date's summary, starting from calendars with up to
\* MaxDuplicates summaries on today, of any of three titles.
MaxDuplicates == CALENDAR_API_CALL_LIMIT_PER_RUN + 1

DuplicateTitles ==
    {SyncSummaryTitle(SLOT_CAP), SyncSummaryTitle(SLOT_CAP - 1), UpsertSummaryTitle(SLOT_CAP)}

DuplicateCalendars ==
    {[EmptyCalendar EXCEPT ![Today] = [k \in 1..n |-> Event(f[k], NoDescription)]] :
        n \in 0..MaxDuplicates, f \in [1..MaxDuplicates -> DuplicateTitles]}

SummaryDays == {Today, Today + 1, FirstWeekend}

InitSummaries ==
    /\ RemoteAnswers
    /\ \E C \in DuplicateCalendars : InitStores(SeededLedger, NoResponses, C)

NextSummaries ==
    \/ \E d \in SummaryDays : RunSyncSummaryEvents(d)
    \/ RunInitRun
    \/ decrementSlotAllCategories(Today)

SpecSummaries == InitSummaries /\ [][NextSummaries]_vars

\* Every path that can create a summary event, asked for valid and invalid
\* dates alike, in every state of the holiday cache and of the remote calendar.
CreatorDays == DriftDays \cup {Today + 1}

\* Responses for a past day, for today and for a weekend day in the first
\* form's sheet.
MixedResponses ==
    [c \in Cats |-> IF c = 1 THEN <<RespRow("a", Today - 1, 1, "bare"),
                                     RespRow("a", Today, 2, "bare"),
                                     RespRow("b", FirstWeekend, 3, "bare")>>
                    ELSE <<>>]

InitCreators == InitWith(SeededLedger, MixedResponses, EmptyCalendar)

NextCreators ==
    \/ \E d \in CreatorDays : RunSyncSummaryEvents(d)
    \/ \E d \in CreatorDays : RunUpsert(d, SLOT_CAP)
    \/ validateSummaryWindow
    \/ syncOneForm(1)
    \/ rebuildAllAvailabilityAndCalendar
    \/ RunSyncDateRange

SpecCreators == InitCreators /\ [][NextCreators]_vars

\* The holiday service asked for dates and ranges, the remote calendar
\* reachable or not, the cache empty at first.
InitHolidays ==
    /\ holidayCache = NoCache
    /\ calendarAvailable \in BOOLEAN
    /\ InitStores(EmptyLedger, NoResponses, EmptyCalendar)

NextHolidays ==
    \/ \E s \in Days, e \in Days : RunFetchRange(s, e)
    \/ \E d \in Days : RunIsHoliday(d)
    \/ HolidayCacheExpires

SpecHolidays == InitHolidays /\ [][NextHolidays]_vars

\* The sync of the whole range with errors on one or two of its dates, over
\* an empty calendar and one with duplicate summaries, between bookings and
\* daily resets.
DuplicatesAhead == [EmptyCalendar EXCEPT ![Today + 3] = <<StaleSummary, StaleSummary>>]

InitSyncErrors ==
    /\ RemoteAnswers
    /\ \E C \in {EmptyCalendar, DuplicatesAhead} : InitStores(SeededLedger, NoResponses, C)

FailSets == {{}} \cup {{d} : d \in WindowDays} \cup {{Today, Today + 1}}

NextSyncErrors ==
    \/ \E fails \in FailSets : RunSyncDateRangeWithErrors(fails)
    \/ decrementSlotAllCategories(Today)
    \/ resetCalendarQuotaDaily

SpecSyncErrors == InitSyncErrors /\ [][NextSyncErrors]_vars

\* Integrity checks over a calendar that holds an appointment event nobody
\* asked for, on a working day or on the remote holiday, while responses
\* arrive and the holiday cache fills and expires.
OrphanAppointment == Event(AppointmentTitle(1, "a"), NoDescription)

OrphanCalendars ==
    {[EmptyCalendar EXCEPT ![d] = <<OrphanAppointment>>] : d \in {Today + 2, Today + 3}}

InitIntegrity ==
    /\ holidayCache = NoCache
    /\ calendarAvailable \in BOOLEAN
    /\ \E C \in OrphanCalendars : InitStores(SeededLedger, NoResponses, C)

NextIntegrity ==
    \/ \E throttled \in BOOLEAN, sameCount \in BOOLEAN :
           checkCalendarIntegrity(throttled, sameCount)
    \/ RunFetchRange(Today, Today + MAX_ADVANCE_DAYS)
    \/ HolidayCacheExpires
    \/ \E d \in {Today, Today + 3} : SubmitResponse(2, "b", d, "bare")
    \/ RunInitRun

SpecIntegrity == InitIntegrity /\ [][NextIntegrity]_vars

\* Purges of response sheets whose rows carry the day of their submission in
\* ts (column 1) and the chosen date in day (column RESP_DATE_COL); a row was
\* submitted on or before the date it chooses, and rows lie in the order of
\* their submission.
SubmittedRows ==
    {RespRow("a", d, t, lab) : d \in {Today - 1, Today, Today + 3},
                               t \in {Today - 1, Today},
                               lab \in {"bare", "label"}}

SubmittedSheets ==
    {<<>>} \cup {<<r>> : r \in SubmittedRows}
           \cup {<<r, q>> : r \in SubmittedRows, q \in SubmittedRows}

InitPurge ==
    /\ RemoteAnswers
    /\ \E rows \in SubmittedSheets :
          /\ \A k \in 1..Len(rows) : rows[k].ts <= rows[k].day
          /\ \A k \in 1..(Len(rows) - 1) : rows[k].ts <= rows[k + 1].ts
          /\ InitStores(EmptyLedger, [c \in Cats |-> rows], EmptyCalendar)

NextPurge ==
    \E c \in Cats, parsesLabel \in BOOLEAN : RunPurgeOldResponses(c, parsesLabel)

SpecPurge == InitPurge /\ [][NextPurge]_vars

\* Submissions for today by one execution while another runs the nightly
\* update again and again, and integrity checks in between.  Nothing obliges
\* a requester to submit or an integrity check to run.
NextConverge ==
    \/ NightlyAcquire("e2")
    \/ NightlyStep("e2", FALSE)
    \/ NightlyRelease("e2")
    \/ SubmitAcquire("e1", 1, "a", Today)
    \/ SubmitDecrement("e1")
    \/ SubmitRest("e1", FALSE)
    \/ SubmitRelease("e1")
    \/ RunFetchRange(Today, Today + MAX_ADVANCE_DAYS)
    \/ checkCalendarIntegrity(FALSE, FALSE)

NightlyRun ==
    \/ NightlyAcquire("e2")
    \/ NightlyStep("e2", FALSE)
    \/ NightlyRelease("e2")

SubmitRun ==
    \/ SubmitDecrement("e1")
    \/ SubmitRest("e1", FALSE)
    \/ SubmitRelease("e1")

\* The nightly run always has a next step (a busy lock makes it return), so
\* its fairness is that it takes steps again and again; a submission under way
\* runs to its end.
SpecConverge ==
    /\ InitOrchestrators
    /\ [][NextConverge]_vars
    /\ []<><<NightlyRun>>_vars
    /\ WF_vars(SubmitRun)

\* Submissions for today through onFormSubmit, which stores the row and
\* decrements, between seedings and the rebuilds of the ledger from the
\* response sheets.  No revert takes place.
NextAccepted ==
    \/ \E c \in Cats : onFormSubmit(c, "a", Today, "bare", FALSE)
    \/ seedAvailabilityWindow
    \/ rebuildSlotCounters
    \/ rebuildAllAvailabilityAndCalendar
    \/ \E c \in Cats : syncOneForm(c)

SpecAccepted == InitLedger /\ [][NextAccepted]_vars

\* Submissions for the working day three days ahead, seedings, and rebuilds of
\* the appointment events from the response sheets.
NextRecreate ==
    \/ \E c \in Cats, i \in Idents : onFormSubmit(c, i, Today + 3, "bare", FALSE)
    \/ seedAvailabilityWindow
    \/ rebuildAppointmentEventsAllForms
    \/ resetCalendarQuotaDaily

SpecRecreate == InitLedger /\ [][NextRecreate]_vars

\* The daily call counter under executions that overlap.  An execution loads
\* calendarCallsToday from the cache when the script is loaded, before its
\* handler asks for the lock; pc[e].read holds the execution's own
\* calendarCallsToday, pc[e].run its calendarCallsThisRun, callsToday the
\* persisted value, and hist.n the calls recorded since the last reset.
LoadScript(e) ==
    /\ At(e, "idle")
    /\ pc' = [pc EXCEPT ![e] = [Idle EXCEPT !.at = "loaded", !.read = <<callsToday>>]]
    /\ UNCHANGED <<ledger, responses, cal, choices, holidayCache, calendarAvailable,
                   callsToday, callsThisRun, lockHolder, succeeded, hist>>

\* lock.tryLock(LOCK_TIMEOUT_MS), once the lock is free
TakeLock(e) ==
    /\ At(e, "loaded")
    /\ lockHolder = NoOne
    /\ lockHolder' = e
    /\ Goto(e, "locked")
    /\ UNCHANGED <<ledger, responses, cal, choices, holidayCache, calendarAvailable,
                   callsToday, callsThisRun, succeeded, hist>>

\* CalendarQuotaManager.recordCall(1), after a calendar call that canCall(1)
\* allowed, by an execution that holds the lock
RecordCall(e) ==
    /\ At(e, "locked")
    /\ hist.n < CALENDAR_API_CALL_LIMIT_PER_DAY
    /\ pc[e].run + 1 <= CALENDAR_API_CALL_LIMIT_PER_RUN
    /\ pc[e].read[1] + 1 <= CALENDAR_API_CALL_LIMIT_PER_DAY
    /\ pc' = [pc EXCEPT ![e].run = @ + 1, ![e].read = <<pc[e].read[1] + 1>>]
    /\ callsToday' = pc[e].read[1] + 1
    /\ hist' = [hist EXCEPT !.op = "recordCall", !.n = @ + 1]
    /\ UNCHANGED <<ledger, responses, cal, choices, holidayCache, calendarAvailable,
                   callsThisRun, lockHolder, succeeded>>

\* finally { lock.releaseLock() } and the end of the execution
EndExecution(e) ==
    /\ At(e, "locked")
    /\ lockHolder' = Released(e)
    /\ pc' = [pc EXCEPT ![e] = Idle]
    /\ UNCHANGED <<ledger, responses, cal, choices, holidayCache, calendarAvailable,
                   callsToday, callsThisRun, succeeded, hist>>

NextQuota ==
    \/ \E e \in Execs : LoadScript(e)
    \/ \E e \in Execs : TakeLock(e)
    \/ \E e \in Execs : RecordCall(e)
    \/ \E e \in Execs : EndExecution(e)
    \/ resetCalendarQuotaDaily

SpecQuota == InitLedger /\ [][NextQuota]_vars

\* Nightly runs and daily quota resets, again and again, over an empty calendar
\* and over one with two stale summaries on one date, while bookings for today may arrive and then stop.
\* The nightly trigger and the reset trigger fire every day: the nightly run
\* takes steps again and again, and the reset is not put off forever while it
\* has something to reset.
NextNightly ==
    \/ decrementSlotAllCategories(Today)
    \/ updateAvailability_everywhere
    \/ resetCalendarQuotaDaily

InitNightly ==
    /\ RemoteAnswers
    /\ \E C \in {EmptyCalendar, DuplicatesAhead} :
           InitStores(EmptyLedger, NoResponses, C)

SpecNightly ==
    /\ InitNightly
    /\ [][NextNightly]_vars
    /\ []<><<updateAvailability_everywhere>>_vars
    /\ WF_vars(resetCalendarQuotaDaily)

\* The purges one by one, and removeHolidaySummaries by itself
RunPurge(name) ==
    /\ LET K0 == [Exec(cal, callsToday) EXCEPT !.run = callsThisRun]
           K == IF name = "purgePast" THEN purgePastCalendarEvents(K0)
                ELSE IF name = "purgeFuture" THEN purgeFutureSummaryEvents(K0)
                ELSE purgeWeekendSummaryEvents(K0)
       IN  /\ Finish(K)
           /\ hist' = [CalendarObs("purge", K) EXCEPT !.result = name]
    /\ UNCHANGED <<ledger, responses, choices, holidayCache, calendarAvailable,
                   lockHolder, pc, succeeded>>

RunRemoveHolidaySummaries ==
    /\ LET out == fetchRange(holidayCache, calendarAvailable,
                             Today, Today + MAX_ADVANCE_DAYS)
       IN  /\ holidayCache' = out.cache
           /\ hist' = [NoObs EXCEPT !.op = "removeHolidaySummaries", !.set = out.dates,
                          !.result = IF removeHolidaySummariesThrows(cal, out.dates)
                                     THEN "threw" ELSE "ok"]
    /\ UNCHANGED <<ledger, responses, cal, choices, calendarAvailable,
                   callsToday, callsThisRun, lockHolder, pc, succeeded>>

\* A shared calendar: next to stale summaries and an appointment nobody asked
\* for it holds events of other people and holiday markers, in the past, today,
\* on the holiday, on the weekend day and after the window.
OtherEvent == Event(Title("other", 0, "", 0, ""), NoDescription)

SharedCalendar ==
    [d \in Days |->
        IF d = Today - 1 THEN <<OtherEvent, StaleSummary, OrphanAppointment>>
        ELSE IF d = Today THEN <<StaleSummary, OtherEvent, StaleSummary>>
        ELSE IF d = Today + 2 THEN <<HolidayEvent, StaleSummary>>
        ELSE IF d = FirstWeekend THEN <<StaleSummary, OtherEvent>>
        ELSE IF d = Today + FUTURE_DAYS + 1 THEN <<HolidayEvent, StaleSummary>>
        ELSE <<>>]

InitShared ==
    /\ RemoteAnswers
    /\ InitStores(SeededLedger, NoResponses, SharedCalendar)

NextShared ==
    \/ \E name \in {"purgePast", "purgeFuture", "purgeWeekend"} : RunPurge(name)
    \/ RunRemoveHolidaySummaries
    \/ RunSyncDateRange
    \/ validateSummaryWindow
    \/ updateAvailability_everywhere
    \/ RunInitRun
    \/ resetCalendarQuotaDaily

SpecShared == InitShared /\ [][NextShared]_vars

\* purgeOldResponsesAll step by step, for executions that overlap: it takes no
\* lock.  For every registry entry in turn the date column is read and the
\* numbers of the rows to delete are put in reverse order (pc[e].read), then
\* the rows are deleted one by one, by number; deleteRow of a number past the
\* last row throws, and the error is caught.
RowsToDelete(rows) ==
    SelectSeq([k \in 1..Len(rows) |-> Len(rows) + 1 - k],
              LAMBDA n : isOldResponse(rows[n], FALSE))

AfterEntry(e, c) ==
    IF c < Len(FORM_REGISTRY)
    THEN [pc[e] EXCEPT !.at = "purgeRead", !.entry = c + 1, !.read = <<>>]
    ELSE Idle

PurgeStart(e) ==
    /\ At(e, "idle")
    /\ pc' = [pc EXCEPT ![e] = [Idle EXCEPT !.at = "purgeRead", !.entry = 1]]
    /\ UNCHANGED <<ledger, responses, cal, choices, holidayCache, calendarAvailable,
                   callsToday, callsThisRun, lockHolder, succeeded, hist>>

PurgeRead(e) ==
    /\ At(e, "purgeRead")
    /\ LET rowsToDelete == RowsToDelete(responses[pc[e].entry]) IN
          pc' = [pc EXCEPT ![e] =
                    IF rowsToDelete = <<>> THEN AfterEntry(e, pc[e].entry)
                    ELSE [@ EXCEPT !.at = "purgeDelete", !.read = rowsToDelete]]
    /\ UNCHANGED <<ledger, responses, cal, choices, holidayCache, calendarAvailable,
                   callsToday, callsThisRun, lockHolder, succeeded, hist>>

DeleteRowAt(rows, n) == [k \in 1..(Len(rows) - 1) |-> IF k < n THEN rows[k] ELSE rows[k + 1]]

PurgeDeleteRow(e) ==
    /\ At(e, "purgeDelete")
    /\ LET c == pc[e].entry
           rowIndex == Head(pc[e].read)
           found == rowIndex <= Len(responses[c])
       IN  /\ responses' = IF found
                           THEN [responses EXCEPT ![c] = DeleteRowAt(@, rowIndex)]
                           ELSE responses
           /\ hist' = [NoObs EXCEPT !.op = "deleteRow", !.cat = c,
                          !.done = IF found THEN <<responses[c][rowIndex]>> ELSE <<>>]
           /\ pc' = [pc EXCEPT ![e] =
                        IF Tail(pc[e].read) = <<>> THEN AfterEntry(e, c)
                        ELSE [@ EXCEPT !.read = Tail(@)]]
    /\ UNCHANGED <<ledger, cal, choices, holidayCache, calendarAvailable,
                   callsToday, callsThisRun, lockHolder, succeeded>>

\* Sheets of rows that chose the day RESPONSE_RETENTION_DAYS ago (expired by
\* now) or the working day three days ahead, new rows arriving.
PurgedRows == {RespRow("a", d, 1, "bare") : d \in {Today - RESPONSE_RETENTION_DAYS, Today + 3}}

InitPurgeAll ==
    /\ RemoteAnswers
    /\ \E r \in PurgedRows, q \in PurgedRows :
          InitStores(EmptyLedger, [c \in Cats |-> IF c = 1 THEN <<r, q>> ELSE <<q>>],
                     EmptyCalendar)

NextPurgeAll ==
    \/ \E e \in Execs : PurgeStart(e)
    \/ \E e \in Execs : PurgeRead(e)
    \/ \E e \in Execs : PurgeDeleteRow(e)
    \/ SubmitResponse(1, "b", Today + 3, "bare")

SpecPurgeAll == InitPurgeAll /\ [][NextPurgeAll]_vars

----------------------------------------------------------------------------
(* Properties of the availability ledger *)

\* C1: when decrementSlotAllCategories(date) finds a category whose row has no
\* slot left, the call fails with "no slots" and no row of that date is
\* decremented: every row that existed keeps its booked and left values, and a
\* row the read phase had to create is the fresh row [date, 0, SLOT_CAP]; the
\* rows of other dates are untouched.
C1_NoPartialDecrement ==
    (hist.op = "decrement" /\ ~isHoliday(hist.day)) =>
        /\ (\E c \in Cats : hist.pre[c][hist.day].present
                              /\ hist.pre[c][hist.day].left <= 0)
               => hist.result = "noslots"
        /\ hist.result = "noslots" =>
               \A c \in Cats, d \in Days :
                   IF d = hist.day /\ ~hist.pre[c][d].present
                   THEN ledger[c][d] = FreshRow
                   ELSE ledger[c][d] = hist.pre[c][d]

\* A rejected decrement while another category still had a slot.
C1_Witness ==
    /\ hist.op = "decrement"
    /\ hist.result = "noslots"
    /\ \E c \in Cats : hist.pre[c][hist.day].present /\ hist.pre[c][hist.day].left = 0
    /\ \E c \in Cats : hist.pre[c][hist.day].present /\ hist.pre[c][hist.day].left > 0

\* C2 (as stated): under any sequence of ledger operations every row has
\* 0 <= left <= SLOT_CAP and booked = SLOT_CAP - left.
C2_RowsInBounds ==
    \A c \in Cats, d \in Days :
        ledger[c][d].present =>
            /\ 0 <= ledger[c][d].left
            /\ ledger[c][d].left <= SLOT_CAP
            /\ ledger[c][d].booked = SLOT_CAP - ledger[c][d].left

SeededDays == {d \in WindowDays : ~isWeekend(d) /\ ~isHoliday(d)}

\* C3: on rows seeded with left = SLOT_CAP for a non-holiday date and under
\* decrements only, exactly SLOT_CAP calls for the date succeed: after k
\* successes every category has left = SLOT_CAP - k, a call is rejected for
\* overbooking only once SLOT_CAP calls have succeeded, and a rejected call
\* leaves left = 0 in every category.
C3_ExactlyCapSucceed ==
    \A d \in SeededDays :
        /\ succeeded[d] <= SLOT_CAP
        /\ \A c \in Cats : ledger[c][d].left = SLOT_CAP - succeeded[d]
        /\ (hist.op = "decrement" /\ hist.day = d /\ hist.result # "ok") =>
               /\ hist.result = "noslots"
               /\ succeeded[d] = SLOT_CAP
               /\ \A c \in Cats : ledger[c][d].left = 0

\* The call after the SLOT_CAP-th success has been rejected.
C3_Witness ==
    /\ hist.op = "decrement"
    /\ hist.day \in SeededDays
    /\ hist.result = "noslots"
    /\ succeeded[hist.day] = SLOT_CAP

\* C4: decrementSlotAllCategories on a holiday is rejected and leaves every
\* sheet as it was: no row is created or changed.
C4_HolidayRejected ==
    (hist.op = "decrement" /\ isHoliday(hist.day)) =>
        hist.result = "holiday" /\ ledger = hist.pre

\* A holiday booking rejected while the date had no row in some sheet.
C4_Witness ==
    /\ hist.op = "decrement"
    /\ hist.result = "holiday"
    /\ \E c \in Cats : ~ledger[c][hist.day].present
    /\ \E c \in Cats, d \in Days : ledger[c][d].present

----------------------------------------------------------------------------
(* Properties of the calendar and its quota *)

CalendarOps == {"nightly", "syncDateRange", "rebuildAll", "syncOneForm"}

\* C6 (as stated): an orchestrator run, the nightly purge + seed + sync
\* included, makes at most CALENDAR_API_CALL_LIMIT_PER_RUN calendar mutations,
\* and a day at most CALENDAR_API_CALL_LIMIT_PER_DAY (every mutation of the
\* nightly run is recorded, so callsToday counts the day's mutations).
C6_RunWithinCeilings ==
    /\ hist.op \in CalendarOps => hist.n <= CALENDAR_API_CALL_LIMIT_PER_RUN
    /\ callsToday <= CALENDAR_API_CALL_LIMIT_PER_DAY

\* C7 (as stated): every calendar mutation is made between canCall(1) and
\* recordCall(1), and once a counter has reached its ceiling the execution makes
\* no further mutation.
C7_GatedAndFinal ==
    hist.op \in CalendarOps => hist.ungated = 0 /\ hist.late = 0

SummaryCount(d) == Len(SelectSeq(cal[d], hasSummaryTag))

ExactlyOneSummaryPerBusinessDate ==
    \A d \in Days : SummaryCount(d) = IF isValidBusinessDate(d) THEN 1 ELSE 0

\* C8 (as stated): after a nightly run that acquired the lock every valid
\* business date of the window has exactly one summary event and every other
\* date has none.
C8_AfterNightly ==
    hist.op = "nightly" => ExactlyOneSummaryPerBusinessDate

\* C8 (amended): the same, for a nightly run in which the quota manager refused
\* no calendar call.
C8_AfterUnrefusedNightly ==
    (hist.op = "nightly" /\ ~hist.refused) => ExactlyOneSummaryPerBusinessDate

\* A nightly run that was refused nothing and changed the calendar.
C8_Witness ==
    /\ hist.op = "nightly"
    /\ ~hist.refused
    /\ hist.n > 0
    /\ \E d \in Days : isValidBusinessDate(d)

\* C9 (as stated): the second of two syncDateRange runs over the same range,
\* with ledger and responses unchanged in between, makes no create, update or
\* delete call.
C9_SecondSyncSilent ==
    (hist.op = "syncDateRange" /\ hist.prevOp = "syncDateRange") => hist.n = 0

\* C9 (amended): the same, when the quota manager refused no call of the first
\* run.
C9_SecondSyncSilentAfterUnrefused ==
    (hist.op = "syncDateRange" /\ hist.prevOp = "syncDateRange" /\ ~hist.prevRefused)
        => hist.n = 0

\* A second run after a first one that changed the calendar and was refused
\* nothing.
C9_Witness ==
    /\ hist.op = "syncDateRange"
    /\ hist.prevOp = "syncDateRange"
    /\ ~hist.prevRefused
    /\ hist.prevN > 0

----------------------------------------------------------------------------
(* Properties of the lock and of the expected appointments *)

Inside(e) == pc[e].at # "idle"

\* C5 (as stated): every ledger write is made while the writing execution
\* holds the script lock, and two executions are never inside their handlers
\* at once.
C5_WritesUnderLock ==
    /\ hist.op = "write" => hist.result = "locked"
    /\ \A e1, e2 \in Execs : (Inside(e1) /\ Inside(e2)) => e1 = e2

RowsFor(i, d) ==
    {<<c, k>> \in Cats \X (1..MaxResp) :
        /\ k <= Len(responses[c])
        /\ responses[c][k].ident = i
        /\ CellIsDate(responses[c][k], d)}

LatestCategory(i, d) ==
    LET rows == RowsFor(i, d)
        last == CHOOSE r \in rows : \A q \in rows :
                    responses[q[1]][q[2]].ts <= responses[r[1]][r[2]].ts
    IN  last[1]

\* C10 (as stated): when response rows share an identity and a chosen date, in
\* one category or in several, getExpectedAppointmentsForDate yields exactly
\* one title for that identity, and it carries the category of the row with
\* the latest timestamp.
C10_LatestSubmissionWins ==
    hist.op = "expected" =>
        \A i \in Idents :
            RowsFor(i, hist.day) # {} =>
                LET mine == SelectSeq(hist.titles, LAMBDA t : t.ident = i)
                IN  mine = <<AppointmentTitle(LatestCategory(i, hist.day), i)>>

----------------------------------------------------------------------------
(* Properties of seeding *)

InRange(d) == d >= Today /\ d <= Today + FUTURE_DAYS

\* C12 (as stated): after seedAvailabilityWindow every sheet has a row for every
\* non-holiday weekday of the range, no row for a Saturday or Sunday and no row
\* outside the range, whatever rows it held before.
C12_SeedLeavesWeekdaysOnly ==
    hist.op = "seed" =>
        \A c \in Cats, d \in Days :
            /\ (InRange(d) /\ ~isWeekend(d) /\ ~isHoliday(d)) => ledger[c][d].present
            /\ isWeekend(d) => ~ledger[c][d].present
            /\ ~InRange(d) => ~ledger[c][d].present

\* C12 (amended): after seedAvailabilityWindow every sheet has a row for every
\* non-holiday weekday of the range and no row outside the range; a row it held
\* before for a date of the range is kept as it was, and the only rows added
\* are fresh rows for non-holiday weekdays, so a Saturday or Sunday has a row
\* only if it had one before the call.
C12_SeedKeepsRowsOfRange ==
    hist.op = "seed" =>
        \A c \in Cats, d \in Days :
            IF ~InRange(d) THEN ~ledger[c][d].present
            ELSE IF hist.pre[c][d].present THEN ledger[c][d] = hist.pre[c][d]
            ELSE IF ~isWeekend(d) /\ ~isHoliday(d) THEN ledger[c][d] = FreshRow
            ELSE ~ledger[c][d].present

\* A seeding that removed a row after the range, kept a weekend row and added
\* a missing one.
C12_Witness ==
    /\ hist.op = "seed"
    /\ \E c \in Cats, d \in Days : ~InRange(d) /\ hist.pre[c][d].present
    /\ \E c \in Cats, d \in Days : InRange(d) /\ isWeekend(d) /\ ledger[c][d].present
    /\ \E c \in Cats, d \in Days : ~hist.pre[c][d].present /\ ledger[c][d].present

\* C13: a seedAvailabilityWindow call directly after another leaves every
\* sheet as the first call left it, decremented rows included.
C13_SecondSeedChangesNothing ==
    (hist.op = "seed" /\ hist.prevOp = "seed") => ledger = hist.pre

\* A second seeding over sheets that hold a decremented row.
C13_Witness ==
    /\ hist.op = "seed"
    /\ hist.prevOp = "seed"
    /\ \E c \in Cats, d \in Days : ledger[c][d].present /\ ledger[c][d].booked > 0
    /\ \E c \in Cats, d \in Days : ledger[c][d] = FreshRow

----------------------------------------------------------------------------
(* Properties of the incremental path and of the appointment events *)

AppointmentsOn(d) ==
    {cal[d][k].title : k \in {x \in 1..Len(cal[d]) : hasAppointmentTag(cal[d][x])}}

\* The requesters with a response row whose chosen date is d.
RowsChoosing(d) ==
    {<<c, k>> \in Cats \X (1..MaxResp) :
        k <= Len(responses[c]) /\ responses[c][k].day = d}

RequestersOf(d) == {responses[p[1]][p[2]].ident : p \in RowsChoosing(d)}

\* C11 (as stated): after a full-range sync that was refused no call, on
\* every valid business date of the window there is an appointment event for
\* every requester who chose the date and none for anyone else.
C11_AppointmentsMatchRequests ==
    (hist.op = "nightly" /\ ~hist.refused) =>
        \A d \in Days : isValidBusinessDate(d) =>
            {t.ident : t \in AppointmentsOn(d)} = RequestersOf(d)

\* The submissions for d in the order they arrived.
ArrivedBefore(d, ts) == {p \in RowsChoosing(d) : responses[p[1]][p[2]].ts < ts}

\* With an empty ledger at the start and nothing but submissions and nightly
\* runs, a submission is accepted when the date is no holiday and fewer than
\* SLOT_CAP submissions for the date arrived before it.
Accepted(row) ==
    /\ ~isHoliday(row.day)
    /\ Cardinality(ArrivedBefore(row.day, row.ts)) < SLOT_CAP

AcceptedRequestersOf(d) ==
    {responses[p[1]][p[2]].ident : p \in {q \in RowsChoosing(d) : Accepted(responses[q[1]][q[2]])}}

SummariesOn(d) == SelectSeq(cal[d], hasSummaryTag)

\* C18 (as stated): after an onFormSubmit run whose decrement succeeded for a
\* valid business date and that was refused no calendar call, the date has
\* exactly one summary event and its title shows the least left value.
C18_SummaryAfterSubmit ==
    (/\ hist.op = "onFormSubmit" /\ hist.result = "ok" /\ ~hist.refused
     /\ isValidBusinessDate(hist.day)) =>
        /\ Len(SummariesOn(hist.day)) = 1
        /\ SummariesOn(hist.day)[1].title.left = MinLeft(ledger, hist.day)

\* C19 (as stated): after an onFormSubmit run whose decrement succeeded and
\* that was refused no calendar call, the chosen date has an appointment event
\* for the requester.
C19_AppointmentAfterSubmit ==
    (hist.op = "onFormSubmit" /\ hist.result = "ok" /\ ~hist.refused) =>
        \E t \in AppointmentsOn(hist.day) : t.ident = hist.ident

\* C20 (as stated): the incremental path works with the registry entry of the
\* form whose response sheet received the submission.
C20_EntryOfTheSubmission ==
    (hist.op = "onFormSubmit" /\ hist.result = "ok") => hist.cat = hist.from

----------------------------------------------------------------------------
(* Properties of the orchestrators *)

InOrchestrator(e) ==
    pc[e].at \in {"nightly", "nightlyRelease", "submitDecrement", "submitRest",
                  "submitRelease"}

\* C16 (as stated): from its tryLock to its own final releaseLock an
\* orchestrator run holds the script lock.
C16_HeldUntilFinalRelease ==
    \A e \in Execs : InOrchestrator(e) => lockHolder = e

StatedOrder ==
    <<"purgePast", "purgeFuture", "purgeWeekend", "seed", "sync", "labels">>

IsPrefix(a, b) == Len(a) <= Len(b) /\ a = SubSeq(b, 1, Len(a))

\* C17: the steps a nightly run has completed are, in order, purge past
\* events, purge summaries beyond the window, purge summaries on invalid dates,
\* seed, sync, refresh the choice lists: all six when no step threw, the first
\* few of them when one did; and an execution that has left the run does not
\* hold the lock.
C17_NightlyOrderAndRelease ==
    /\ \A e \in Execs :
        /\ IsPrefix(pc[e].done, StatedOrder)
        /\ (At(e, "nightlyRelease") /\ ~pc[e].threw) => pc[e].done = StatedOrder
        /\ At(e, "idle") => lockHolder # e
    /\ hist.op = "nightlyEnd" =>
        /\ IsPrefix(hist.done, StatedOrder)
        /\ hist.result = "ok" => hist.done = StatedOrder

C17_Witness ==
    /\ hist.op = "nightlyEnd"
    /\ hist.result = "threw"
    /\ Len(hist.done) = 4
    /\ At("e2", "idle")
    /\ lockHolder = NoOne

----------------------------------------------------------------------------
(* Properties of the failure handling of the incremental path *)

RowBefore(c, d) == IF hist.pre[c][d].present THEN hist.pre[c][d] ELSE FreshRow

\* C21 (as stated): when the decrement of an onFormSubmit run succeeded and
\* the appointment event of the request was not created, the row of the date
\* has in every category the booked and left values it had before the
\* decrement (those of a fresh row where the decrement created the row).
C21_RevertedWhenEventFails ==
    (/\ hist.op = "onFormSubmit" /\ hist.result = "ok"
     /\ \A t \in AppointmentsOn(hist.day) : t.ident # hist.ident) =>
        \A c \in Cats : ledger[c][hist.day] = RowBefore(c, hist.day)

----------------------------------------------------------------------------
(* Properties of the summary events and of the choice lists *)

\* C22 (as stated): after a sync that was refused no call, the summary event
\* of every valid business date that has a ledger row in every category shows
\* the least left value of those rows.  (The colour is set from the same
\* number as the title.)
C22_SummaryShowsMinLeft ==
    (hist.op = "nightly" /\ ~hist.refused) =>
        \A d \in Days :
            (isValidBusinessDate(d) /\ \A c \in Cats : ledger[c][d].present) =>
                \A k \in 1..Len(SummariesOn(d)) :
                    SummariesOn(d)[k].title.left = MinLeft(ledger, d)

\* C23 (as stated): after the nightly run every choice of every form is for a
\* date of the window that is no weekend and no holiday and whose least left
\* value over the categories is positive, and the choice shows that value.
C23_ChoicesOfferOpenDates ==
    hist.op = "nightly" =>
        \A c \in Cats : \A k \in 1..Len(choices[c]) :
            LET d == choices[c][k].day IN
                /\ InRange(d) /\ ~isWeekend(d) /\ ~isHoliday(d)
                /\ MinLeft(ledger, d) > 0
                /\ choices[c][k].left = MinLeft(ledger, d)

\* The title syncSummaryEvents computes for the date.
ExpectedSummaryTitle(d) == SyncSummaryTitle(getAvailabilityForDate(ledger, d))

\* C24: when syncSummaryEvents found k > 1 summary events on a valid business
\* date and the quota allowed at least k calls, exactly one summary event is
\* left on the date and it has the expected title.
C24_DuplicatesCollapse ==
    (/\ hist.op = "syncSummary" /\ isValidBusinessDate(hist.day)
     /\ hist.prevN > 1 /\ hist.allowed >= hist.prevN) =>
        /\ Len(SummariesOn(hist.day)) = 1
        /\ SummariesOn(hist.day)[1].title = ExpectedSummaryTitle(hist.day)

C24_Witness ==
    /\ hist.op = "syncSummary" /\ hist.day = Today
    /\ hist.prevN = 2 /\ hist.allowed >= 2 /\ hist.n = 2
    /\ Len(SummariesOn(Today)) = 1
    /\ ledger[1][Today].booked = 1

\* C25: starting from a calendar without summary events, no summary event is
\* ever found on a date that is not a valid business date: no path creates one
\* there.
C25_NoSummaryOnInvalidDate ==
    \A d \in Days : ~isValidBusinessDate(d) => SummaryCount(d) = 0

C25_Witness ==
    /\ hist.op = "upsert" /\ isHoliday(hist.day) /\ hist.n = 0
    /\ \E d \in Days : SummaryCount(d) = 1 /\ SummariesOn(d)[1].title.fmt = "upsert"
    /\ \E d \in Days : SummaryCount(d) = 1 /\ SummariesOn(d)[1].title.fmt = "sync"

\* C30 (as stated): after validateSummaryWindow was refused no calendar call,
\* every valid business date from today to today + FUTURE_DAYS has exactly one
\* summary event and every other date of that window has none.
C30_WindowValidated ==
    (hist.op = "validate" /\ ~hist.refused) =>
        \A d \in WindowDays :
            SummaryCount(d) = IF isValidBusinessDate(d) THEN 1 ELSE 0

----------------------------------------------------------------------------
(* Properties of the holiday service *)

Holidays == RemoteHolidays \cup ManualHolidays

\* C26 (as stated): with the remote calendar answering, isHoliday(d) answers
\* yes exactly when the remote calendar has an event on d or d is in the
\* fallback table, and exactly when d is among the dates fetchRange returns
\* for a window that contains d.
C26_IsHolidayIsTheUnion ==
    (hist.op = "isHoliday" /\ calendarAvailable) =>
        /\ hist.result = "yes" <=> hist.day \in Holidays
        /\ hist.result = "yes" <=> hist.day \in hist.set

\* C27 (as stated): with the remote calendar answering, fetchRange(start, end)
\* returns exactly the remote and fallback holidays from start to end,
\* whatever calls came before.
C27_FetchRangeIsTheUnion ==
    (hist.op = "fetchRange" /\ calendarAvailable) =>
        hist.set = {d \in hist.day..hist.from : d \in Holidays}

----------------------------------------------------------------------------
(* Properties of the loop of syncDateRange *)

\* C28: syncDateRange visits every date from today to today + FUTURE_DAYS once,
\* in increasing order, whatever dates throw; it counts one error for each date
\* that threw; and when it was refused no call, every valid business date that
\* did not throw has its one summary event, those after a failing date too.
C28_ErrorsDoNotStopTheLoop ==
    hist.op = "syncErrors" =>
        /\ hist.done = [k \in 1..(FUTURE_DAYS + 1) |-> Today + k - 1]
        /\ hist.prevN = Cardinality(hist.set)
        /\ ~hist.refused =>
               \A d \in WindowDays \ hist.set :
                   isValidBusinessDate(d) => SummaryCount(d) = 1

C28_Witness ==
    /\ hist.op = "syncErrors" /\ hist.set = {Today} /\ ~hist.refused
    /\ hist.n = 2
    /\ SummaryCount(Today) = 0
    /\ \E d \in WindowDays : d > Today /\ SummaryCount(d) = 1

\* C29 (as stated): after an integrity check that was neither throttled nor
\* cut short, no appointment event is left on an upcoming date that no
\* retained response chose.
UpcomingDays == {d \in Days : d >= Today}

RetainedOn(d) ==
    \E c \in Cats : \E k \in 1..Len(responses[c]) :
        responses[c][k].day = d /\ responses[c][k].day >= cutoffDay

C29_OrphansDeleted ==
    (hist.op = "integrity" /\ hist.result = "done") =>
        \A d \in UpcomingDays : AppointmentsOn(d) # {} => RetainedOn(d)

\* C31 (as stated): a purge of a sheet whose date cells are bare dates deletes
\* exactly the rows submitted more than RESPONSE_RETENTION_DAYS ago, whatever
\* date they choose, and keeps the other rows in their order.
SubmittedLongAgo(row) == startOfDay(row.ts) < Now - 2 * RESPONSE_RETENTION_DAYS

C31_PurgeByTimestamp ==
    (hist.op = "purge" /\ \A k \in 1..Len(hist.done) : hist.done[k].label = "bare") =>
        responses[hist.cat] = SelectSeq(hist.done, LAMBDA row : ~SubmittedLongAgo(row))

\* C32 (as stated): when onFormSubmit for a submission for today, a valid
\* business date with free slots, returns because the lock was busy, the
\* booked count of today eventually equals the number of requests held for
\* today.
FreeSlots(d) == \A c \in Cats : ~ledger[c][d].present \/ ledger[c][d].left > 0

RequestsHeld(d) == Cardinality(RowsChoosing(d))

C32_BusySubmissionIsAccounted ==
    (/\ hist.op = "onFormSubmit" /\ hist.result = "busy"
     /\ FreeSlots(Today) /\ RequestsHeld(Today) <= SLOT_CAP)
        ~> (\A c \in Cats : ledger[c][Today].booked = RequestsHeld(Today))

\* C33 (as stated, where no revert has taken place): the bookings that
\* decrementSlotAllCategories accepted for a date never number more than
\* SLOT_CAP.
C33_AcceptedWithinCap == \A d \in Days : succeeded[d] <= SLOT_CAP

\* C34 (as stated): on every date the ledger rows of all categories hold the
\* same booked and left counts.
C34_CategoriesAgree ==
    \A d \in Days : \A c \in Cats, q \in Cats : ledger[c][d] = ledger[q][d]

\* C35 (as stated): a rebuild of the appointment events, which decrements
\* nothing, leaves every ledger row as it was.
C35_RebuildLeavesLedger ==
    hist.op = "rebuildAppointments" => ledger = hist.pre

\* C36 (as stated): the persisted daily counter equals the number of calls
\* that the executions have recorded since the last reset.
C36_DailyCounterIsTheTotal == callsToday = hist.n

\* C37 (as stated): when one of upsertDailySummaryEvent and syncSummaryEvents
\* has written the one summary of a date with the left count of the ledger,
\* and the other runs next for the same date, the calendar stays as it is.
SummaryLeft(d) == SelectSeq(cal[d], hasSummaryTag)[1].title.left

C37_SummaryAcceptedByTheOther ==
    [][(/\ hist.op \in {"upsert", "syncSummary"}
        /\ hist'.op \in {"upsert", "syncSummary"}
        /\ hist'.op # hist.op
        /\ hist'.day = hist.day
        /\ hist.n > 0
        /\ SummaryCount(hist.day) = 1
        /\ getAvailabilityForDate(ledger, hist.day) = SLOT_CAP
        /\ SummaryLeft(hist.day) = SLOT_CAP)
            => cal' = cal]_vars

\* C38 (as stated): once the data have stopped changing, the nightly runs
\* reach and keep a calendar with exactly one summary on every valid business
\* date of the window, titled with the fewest slots left in any category.
SummariesSettled ==
    \A d \in WindowDays : isValidBusinessDate(d) =>
        /\ SummaryCount(d) = 1
        /\ ledger[1][d].present
        /\ SummaryLeft(d) = MinLeft(ledger, d)

C38_NightlyRunsConverge == <>[]SummariesSettled

\* C39 (as stated): every row a purge deletes is one whose date cell lies
\* before the retention window.
C39_OnlyExpiredRowsDeleted ==
    hist.op = "deleteRow" =>
        \A k \in 1..Len(hist.done) : isOldResponse(hist.done[k], FALSE)

\* C40: the purges, removeHolidaySummaries, syncDateRange and
\* validateSummaryWindow leave every event that carries neither the summary
\* tag nor the appointment tag where and as it was.
Untagged(events) ==
    SelectSeq(events, LAMBDA ev : ~hasSummaryTag(ev) /\ ~hasAppointmentTag(ev))

C40_OtherEventsUntouched ==
    [][\A d \in Days : Untagged(cal'[d]) = Untagged(cal[d])]_vars

\* Past events were purged next to an event of somebody else, which is still
\* there, and the holiday markers stand.
C40_Witness ==
    /\ hist.op \in {"purge", "nightly"}
    /\ hist.n > 0
    /\ cal[Today - 1] = <<OtherEvent>>
    /\ hasHolidayTag(cal[Today + 2][1])

====
